---- MODULE Spec2Model ----
(***************************************************************************)
(* State-machine model of the quiz application:                            *)
(*   quiz_api/models.py             Quiz, Question, Answer, UserQuizAttempt*)
(*   quiz_api/scoring_strategies.py the three evaluators and their factory *)
(*   quiz_api/services.py           the scoring, attempt, statistics and   *)
(*                                  quiz services                          *)
(*   quiz_api/serializers.py        the submission and read serializers    *)
(*   quiz_api/views.py              QuizViewSet                            *)
(*   quiz_project/db_routers.py     PrimaryReplicaRouter                   *)
(*                                                                         *)
(* Rows of the tables are functions from the primary key to a record of    *)
(* the columns that the modelled code reads.  Titles and texts never       *)
(* influence a decision and are left out; Answer.explanation is kept where *)
(* a specification varies it and is blank otherwise.  Answer.order keeps   *)
(* its default 0, so that answers are ordered by id.  A Decimal with two   *)
(* places is represented by its value in hundredths (33.33 is 3333), a     *)
(* datetime by a number of clock ticks.  ret holds the last call or        *)
(* request and what it returned; a caller starts an operation only when no *)
(* result is outstanding.  reqs holds the locals of the requests that run  *)
(* in parallel.                                                            *)
(***************************************************************************)
EXTENDS Integers, Sequences, FiniteSets, TLC

\* ---------------------------------------------------------------- bounds
MaxQuizzes == 2
MaxQuestions == 2
MaxAnswers == 2
MaxSubmitted == 1
MaxEvalAnswers == 3
MaxEvalSubmitted == 3
MaxScenarioSubmitted == 2
MaxTotal == 40
MaxUsers == 2
MaxViewAttempts == 2
MaxViewSubmitted == 2
MaxClock == 2
MaxStart == 5
MaxTimingAttempts == 1
MaxStatAttempts == 3
MaxLimit == 2
MaxRequests == 2
MaxDetailSubmitted == 2
MaxScoringCalls == 1

\* ------------------------------------------------------- input domains
QuizIds == 1..MaxQuizzes

\* Question.question_type is a CharField: the three declared choices, and a
\* tag outside the choices (choices are not enforced by the table).
QuestionTypes == {"single", "multi", "select_words", "true_false"}

\* Question.points is an IntegerField; its validators run only in
\* full_clean(), so 0 can be stored.
PointValues == {0, 1, 2}

\* Question.order, default 0.
OrderValues == {0}

StrategyClasses ==
  {"SingleChoiceStrategy", "MultipleChoiceStrategy", "SelectWordsStrategy"}

\* the Quiz table with every row at the default of is_active
AllActive == [q \in QuizIds |-> [is_active |-> TRUE]]

VARIABLES
  questions,   \* Question table: id -> [quiz, question_type, points, order]
  answers,     \* Answer table:   id -> [question, is_correct]
  strategies,  \* ScoringStrategyFactory._strategies: tag -> class
  ret,         \* the last call made and what it returned
  attempts,    \* UserQuizAttempt table: id -> the row's columns
  now,         \* timezone.now(), in clock ticks
  reqs,        \* the requests in progress: request -> its locals
  quizzes,     \* Quiz table: id -> [is_active]
  databases    \* settings.DATABASES: the aliases configured

vars ==
  <<questions, answers, strategies, ret, attempts, now, reqs, quizzes,
    databases>>

\* what the scoring core never touches: the attempt table, the clock, the
\* requests in progress, the Quiz rows and the settings
store == <<attempts, now, reqs, quizzes, databases>>

\* ------------------------------------------------------------- helpers
\* set(a_list)
ToSet(list) == {list[i] : i \in DOMAIN list}

Min(S) == CHOOSE x \in S : \A y \in S : x <= y

RECURSIVE SortedSeq(_)
\* ascending sequence of a finite set of integers
SortedSeq(S) ==
  IF S = {} THEN <<>> ELSE <<Min(S)>> \o SortedSeq(S \ {Min(S)})

Digits == <<"0", "1", "2", "3", "4", "5", "6", "7", "8", "9">>

RECURSIVE Str(_)
\* str(n) of a non-negative int: its decimal numeral
Str(n) ==
  IF n < 10 THEN Digits[n + 1] ELSE Str(n \div 10) \o Digits[(n % 10) + 1]

\* dict.get(key, default)
DictGet(d, key, default) == IF key \in DOMAIN d THEN d[key] ELSE default

\* all lists of length <= n over ids
ListsOver(ids, n) == UNION {[1..k -> ids] : k \in 0..n}

\* all dicts whose keys are among keys and whose values are among lists
DictsOver(keys, lists) == UNION {[K -> lists] : K \in SUBSET keys}

\* ---------------------------------------------------------- the tables
\* question.answers: the ids of the Answer rows whose FK is the question
QuestionAnswers(ans, q) == {a \in DOMAIN ans : ans[a].question = q}

\* question.answers.filter(is_correct=True).values_list('id', flat=True)
CorrectAnswerIds(ans, q) == {a \in QuestionAnswers(ans, q) : ans[a].is_correct}

\* the ordering by id alone, without the order column
QuestionBefore_ById(qs, p, q) == p <= q

\* Question.Meta.ordering = ['order', 'id']
QuestionBefore(qs, p, q) ==
  \/ qs[p].order < qs[q].order
  \/ qs[p].order = qs[q].order /\ p <= q

RECURSIVE OrderedQuestions(_, _)
\* the rows in Meta.ordering, first to last
OrderedQuestions(qs, S) ==
  IF S = {} THEN <<>>
  ELSE LET first == CHOOSE p \in S : \A q \in S : QuestionBefore(qs, p, q)
       IN <<first>> \o OrderedQuestions(qs, S \ {first})

\* quiz.questions without the filter on the quiz: Question.objects.all()
QuizQuestions_AllQuizzes(qs, quiz) == OrderedQuestions(qs, DOMAIN qs)

\* quiz.questions: the quiz's Question rows in Meta.ordering
QuizQuestions(qs, quiz) ==
  OrderedQuestions(qs, {q \in DOMAIN qs : qs[q].quiz = quiz})

RECURSIVE SumPoints(_, _)
SumPoints(qs, S) ==
  IF S = {} THEN 0
  ELSE LET q == CHOOSE x \in S : TRUE IN qs[q].points + SumPoints(qs, S \ {q})

\* Quiz.get_total_points
get_total_points(qs, quiz) ==
  SumPoints(qs, {q \in DOMAIN qs : qs[q].quiz = quiz})

\* ------------------------------------------------------- the evaluators
\* SingleChoiceStrategy.is_correct counting the submitted list, not its set
SingleChoiceStrategy_is_correct_ListLen(ans, q, submitted_answer_ids) ==
  LET correct_answer_ids == CorrectAnswerIds(ans, q)
      submitted_ids == ToSet(submitted_answer_ids)
  IN /\ Len(submitted_answer_ids) = 1
     /\ Cardinality(correct_answer_ids) = 1
     /\ submitted_ids = correct_answer_ids

SingleChoiceStrategy_is_correct(ans, q, submitted_answer_ids) ==
  LET correct_answer_ids == CorrectAnswerIds(ans, q)
      submitted_ids == ToSet(submitted_answer_ids)
  IN /\ Cardinality(submitted_ids) = 1
     /\ Cardinality(correct_answer_ids) = 1
     /\ submitted_ids = correct_answer_ids

\* MultipleChoiceStrategy.is_correct accepting extra selections
MultipleChoiceStrategy_is_correct_Superset(ans, q, submitted_answer_ids) ==
  LET correct_answer_ids == CorrectAnswerIds(ans, q)
      submitted_ids == ToSet(submitted_answer_ids)
  IN correct_answer_ids \subseteq submitted_ids

MultipleChoiceStrategy_is_correct(ans, q, submitted_answer_ids) ==
  LET correct_answer_ids == CorrectAnswerIds(ans, q)
      submitted_ids == ToSet(submitted_answer_ids)
  IN submitted_ids = correct_answer_ids

SelectWordsStrategy_is_correct(ans, q, submitted_answer_ids) ==
  LET correct_answer_ids == CorrectAnswerIds(ans, q)
      submitted_ids == ToSet(submitted_answer_ids)
  IN submitted_ids = correct_answer_ids

\* strategy.is_correct(question, submitted) for an instance of class cls
Strategy_is_correct(cls, ans, q, submitted_answer_ids) ==
  CASE cls = "SingleChoiceStrategy" ->
         SingleChoiceStrategy_is_correct(ans, q, submitted_answer_ids)
    [] cls = "MultipleChoiceStrategy" ->
         MultipleChoiceStrategy_is_correct(ans, q, submitted_answer_ids)
    [] cls = "SelectWordsStrategy" ->
         SelectWordsStrategy_is_correct(ans, q, submitted_answer_ids)

\* ---------------------------------------------------------- the factory
BuiltinStrategies ==
  [t \in {"single", "multi", "select_words"} |->
     CASE t = "single" -> "SingleChoiceStrategy"
       [] t = "multi" -> "MultipleChoiceStrategy"
       [] t = "select_words" -> "SelectWordsStrategy"]

\* the classes that strategy_class() cannot instantiate: the abstract base,
\* whose is_correct is abstract
AbstractClasses == {"QuestionScoringStrategy"}

\* the classes that issubclass(strategy_class, QuestionScoringStrategy)
\* accepts: the base itself, the three evaluators, and a subclass a caller
\* defines
SubclassesOfBase ==
  StrategyClasses \cup {"QuestionScoringStrategy", "TrueFalseStrategy"}

\* ScoringStrategyFactory.get_strategy: strategy_class() of the class the
\* registry holds for the tag.  A tag that is no key raises the ValueError,
\* whose message holds the tag and the keys of the registry; a class that
\* cannot be instantiated raises TypeError.
get_strategy(strats, question_type) ==
  IF question_type \notin DOMAIN strats
    THEN [raised |-> "ValueError", cls |-> "none",
          question_type |-> question_type, supported |-> DOMAIN strats]
  ELSE IF strats[question_type] \in AbstractClasses
    THEN [raised |-> "TypeError", cls |-> "none"]
  ELSE [raised |-> "none", cls |-> strats[question_type]]

\* ------------------------------------------------- QuizScoringService
\* _is_answer_correct without the except clause: the ValueError propagates
is_answer_correct_Uncaught(strats, qs, ans, q, submitted_answer_ids) ==
  LET strategy == get_strategy(strats, qs[q].question_type)
  IN IF strategy.raised # "none"
       THEN [raised |-> strategy.raised, value |-> FALSE]
       ELSE [raised |-> "none",
             value |-> Strategy_is_correct(strategy.cls, ans, q,
                                           submitted_answer_ids)]

\* _is_answer_correct: the try block; ValueError is caught and becomes
\* False, any other exception of get_strategy propagates
is_answer_correct(strats, qs, ans, q, submitted_answer_ids) ==
  LET strategy == get_strategy(strats, qs[q].question_type)
  IN IF strategy.raised = "ValueError"
       THEN [raised |-> "none", value |-> FALSE]
     ELSE IF strategy.raised # "none"
       THEN [raised |-> strategy.raised, value |-> FALSE]
     ELSE [raised |-> "none",
             value |-> Strategy_is_correct(strategy.cls, ans, q,
                                           submitted_answer_ids)]

\* round-half-even of n / d to an integer, n >= 0, d > 0
RoundHalfEven(n, d) ==
  LET q == n \div d
      r == n % d
  IN IF 2 * r < d THEN q
     ELSE IF 2 * r > d THEN q + 1
     ELSE IF q % 2 = 0 THEN q ELSE q + 1

\* _calculate_percentage taking a quiz without points for a perfect score
calculate_percentage_EmptyIsFull(earned, total) ==
  IF total = 0 THEN 10000 ELSE RoundHalfEven(earned * 10000, total)

\* _calculate_percentage, in hundredths.  Decimal(x).quantize(Decimal('0.01'))
\* rounds with the default context's ROUND_HALF_EVEN.  x is the double
\* (earned / total) * 100; for every 0 <= earned <= total < 160 the double
\* lies on the same side of every rounding boundary as the exact quotient,
\* and is exact where the quotient is a tie, so the result is the half-even
\* rounding of the exact quotient.  The model keeps total below 160.
calculate_percentage(earned, total) ==
  IF total = 0 THEN 0 ELSE RoundHalfEven(earned * 10000, total)

\* Answer.explanation, blank by default
Explanation(ans, a) ==
  IF "explanation" \in DOMAIN ans[a] THEN ans[a].explanation ELSE ""

\* the record appended to detailed_results for one question
DetailRecord(qs, ans, q, is_correct, points_awarded, question_answers) ==
  [question_id |-> q,
   question_type |-> qs[q].question_type,
   points |-> qs[q].points,
   is_correct |-> is_correct,
   points_awarded |-> points_awarded,
   user_answer_ids |-> question_answers,
   correct_answer_ids |-> SortedSeq(CorrectAnswerIds(ans, q)),
   answers |-> [i \in 1..Cardinality(QuestionAnswers(ans, q)) |->
                  LET a == SortedSeq(QuestionAnswers(ans, q))[i]
                  IN [id |-> a,
                      is_correct |-> ans[a].is_correct,
                      explanation |-> Explanation(ans, a),
                      was_selected |-> a \in ToSet(question_answers)]]]

\* the loop body awarding one point for a correct question, whatever its value
ScoreQuestion_FlatPoint(strats, qs, ans, submitted_answers, include_details, acc, q) ==
  LET question_answers == DictGet(submitted_answers, Str(q), <<>>)
      verdict == is_answer_correct(strats, qs, ans, q, question_answers)
      points_awarded == IF verdict.value THEN 1 ELSE 0
  IN IF acc.raised # "none" THEN acc
     ELSE IF verdict.raised # "none"
       THEN [acc EXCEPT !.raised = verdict.raised]
     ELSE [raised |-> "none",
           total_points |-> acc.total_points + qs[q].points,
           earned_points |-> acc.earned_points + points_awarded,
           detailed_results |->
             IF include_details
               THEN Append(acc.detailed_results,
                           DetailRecord(qs, ans, q, verdict.value,
                                        points_awarded, question_answers))
               ELSE acc.detailed_results]

\* one iteration of the for loop of calculate_score over question q
ScoreQuestion(strats, qs, ans, submitted_answers, include_details, acc, q) ==
  LET question_answers == DictGet(submitted_answers, Str(q), <<>>)
      verdict == is_answer_correct(strats, qs, ans, q, question_answers)
      points_awarded == IF verdict.value THEN qs[q].points ELSE 0
  IN IF acc.raised # "none" THEN acc
     ELSE IF verdict.raised # "none"
       THEN [acc EXCEPT !.raised = verdict.raised]
     ELSE [raised |-> "none",
           total_points |-> acc.total_points + qs[q].points,
           earned_points |-> acc.earned_points + points_awarded,
           detailed_results |->
             IF include_details
               THEN Append(acc.detailed_results,
                           DetailRecord(qs, ans, q, verdict.value,
                                        points_awarded, question_answers))
               ELSE acc.detailed_results]

RECURSIVE ScoreLoop(_, _, _, _, _, _, _)
\* the for loop over the first n questions of the quiz
ScoreLoop(strats, qs, ans, submitted_answers, include_details, order, n) ==
  IF n = 0
    THEN [raised |-> "none", total_points |-> 0, earned_points |-> 0,
          detailed_results |-> <<>>]
    ELSE ScoreQuestion(strats, qs, ans, submitted_answers, include_details,
                       ScoreLoop(strats, qs, ans, submitted_answers,
                                 include_details, order, n - 1),
                       order[n])

\* QuizScoringService(quiz).calculate_score(submitted_answers, include_details)
\* detailed_results is the list, and has_details tells it from None
calculate_score(strats, qs, ans, quiz, submitted_answers, include_details) ==
  LET order == QuizQuestions(qs, quiz)
      acc == ScoreLoop(strats, qs, ans, submitted_answers, include_details,
                       order, Len(order))
  IN [raised |-> acc.raised,
      score |-> IF acc.raised = "none"
                  THEN calculate_percentage(acc.earned_points, acc.total_points)
                  ELSE 0,
      total_points |-> acc.total_points,
      earned_points |-> acc.earned_points,
      has_details |-> include_details,
      detailed_results |-> acc.detailed_results]

\* ------------------------------------------------------------- actions
\* ret when no call's result is outstanding
NoCall == [op |-> "none"]

\* the caller is free to start an operation
Idle == ret = NoCall

\* Question.objects.create(quiz=..., question_type=..., points=..., order=...)
CreateQuestion(quiz, question_type, points, order) ==
  /\ Cardinality(DOMAIN questions) < MaxQuestions
  /\ LET id == Cardinality(DOMAIN questions) + 1
     IN questions' =
          [q \in DOMAIN questions \cup {id} |->
             IF q = id
               THEN [quiz |-> quiz, question_type |-> question_type,
                     points |-> points, order |-> order]
               ELSE questions[q]]
  /\ UNCHANGED <<answers, strategies, ret, store>>

\* Answer.objects.create(question=..., is_correct=...)
CreateAnswer(question, is_correct) ==
  /\ Cardinality(DOMAIN answers) < MaxAnswers
  /\ question \in DOMAIN questions
  /\ LET id == Cardinality(DOMAIN answers) + 1
     IN answers' =
          [a \in DOMAIN answers \cup {id} |->
             IF a = id
               THEN [question |-> question, is_correct |-> is_correct]
               ELSE answers[a]]
  /\ UNCHANGED <<questions, strategies, ret, store>>

\* calculate_score with its two counters kept on the service between calls
\* instead of being reset at the start of each call
CalculateScore_KeepsCounters(quiz, submitted_answers, include_details, again) ==
  LET r == calculate_score(strategies, questions, answers, quiz,
                           submitted_answers, include_details)
      kept == IF again THEN ret.result
              ELSE [total_points |-> 0, earned_points |-> 0]
      total_points == kept.total_points + r.total_points
      earned_points == kept.earned_points + r.earned_points
  IN /\ ret' = [op |-> "calculate_score",
                quiz |-> quiz,
                submitted_answers |-> submitted_answers,
                include_details |-> include_details,
                again |-> again,
                result |-> [r EXCEPT
                  !.total_points = total_points,
                  !.earned_points = earned_points,
                  !.score = calculate_percentage(earned_points, total_points)]]
     /\ UNCHANGED <<questions, answers, strategies, store>>

\* a call of QuizScoringService(quiz).calculate_score(...); again tells a
\* call that repeats the caller's previous call
CalculateScore(quiz, submitted_answers, include_details, again) ==
  /\ ret' = [op |-> "calculate_score",
             quiz |-> quiz,
             submitted_answers |-> submitted_answers,
             include_details |-> include_details,
             again |-> again,
             result |-> calculate_score(strategies, questions, answers, quiz,
                                        submitted_answers, include_details)]
  /\ UNCHANGED <<questions, answers, strategies, store>>

\* the caller makes the call it has just made once more
ScoreAgain ==
  /\ ret.op = "calculate_score"
  /\ ~ret.again
  /\ CalculateScore(ret.quiz, ret.submitted_answers, ret.include_details, TRUE)

\* the caller has taken the result
Return ==
  /\ ret # NoCall
  /\ ret' = NoCall
  /\ UNCHANGED <<questions, answers, strategies, store>>

\* the submissions of the main specification: keys are the numerals of the
\* question ids the model can create, values are lists of answer ids
Submissions ==
  DictsOver({Str(q) : q \in 1..MaxQuestions},
            ListsOver(1..MaxAnswers, MaxSubmitted))

Init ==
  /\ questions = <<>>
  /\ answers = <<>>
  /\ strategies = BuiltinStrategies
  /\ ret = NoCall
  /\ attempts = <<>>
  /\ now = 0
  /\ reqs = <<>>
  /\ quizzes = AllActive
  /\ databases = {"default"}

Next ==
  \/ /\ Idle
     /\ \E quiz \in QuizIds, t \in QuestionTypes, p \in PointValues,
           o \in OrderValues : CreateQuestion(quiz, t, p, o)
  \/ /\ Idle
     /\ \E q \in 1..MaxQuestions, c \in BOOLEAN : CreateAnswer(q, c)
  \/ /\ Idle
     /\ \E quiz \in QuizIds, s \in Submissions, d \in BOOLEAN :
           CalculateScore(quiz, s, d, FALSE)
  \/ Return

Spec == Init /\ [][Next]_vars

\* the main specification with callers that repeat their scoring call
NextRepeat ==
  \/ Next
  \/ ScoreAgain

SpecRepeat == Init /\ [][NextRepeat]_vars

\* ---------------------------------------- the evaluators called directly
\* cls().is_correct(question, submitted_answer_ids)
IsCorrectCall(cls, question, submitted_answer_ids) ==
  /\ question \in DOMAIN questions
  /\ ret' = [op |-> "is_correct",
             cls |-> cls,
             question |-> question,
             submitted_answer_ids |-> submitted_answer_ids,
             result |-> Strategy_is_correct(cls, answers, question,
                                            submitted_answer_ids)]
  /\ UNCHANGED <<questions, answers, strategies, store>>

\* one question of any type that owns MaxEvalAnswers answers, each marked
\* correct or not
InitEval ==
  /\ \E t \in QuestionTypes :
       questions = [q \in {1} |-> [quiz |-> 1, question_type |-> t,
                                   points |-> 1, order |-> 0]]
  /\ answers \in [1..MaxEvalAnswers -> [question : {1}, is_correct : BOOLEAN]]
  /\ strategies = BuiltinStrategies
  /\ ret = NoCall
  /\ attempts = <<>>
  /\ now = 0
  /\ reqs = <<>>
  /\ quizzes = AllActive
  /\ databases = {"default"}

\* the submitted lists hold ids of the question's answers and one id that is
\* no answer of the question
NextEval ==
  \/ /\ Idle
     /\ \E cls \in StrategyClasses,
           l \in ListsOver(1..(MaxEvalAnswers + 1), MaxEvalSubmitted) :
           IsCorrectCall(cls, 1, l)
  \/ Return

SpecEval == InitEval /\ [][NextEval]_vars

\* ------------------------------------- _calculate_percentage called directly
\* QuizScoringService._calculate_percentage(earned, total)
PercentageCall(earned, total) ==
  /\ ret' = [op |-> "calculate_percentage",
             earned |-> earned,
             total |-> total,
             result |-> calculate_percentage(earned, total)]
  /\ UNCHANGED <<questions, answers, strategies, store>>

NextPercentage ==
  \/ /\ Idle
     /\ \E total \in 0..MaxTotal : \E earned \in 0..total :
           PercentageCall(earned, total)
  \/ Return

SpecPercentage == Init /\ [][NextPercentage]_vars

\* ------------------------------------------- the quiz of conftest.py
\* complete_quiz in a fresh database: question_single (id 1) and
\* question_multi (id 2) of one quiz, answers_single (ids 1..3, the second
\* correct), answers_multi (ids 4..7, the second and the fourth correct)
FixtureQuestions ==
  <<[quiz |-> 1, question_type |-> "single", points |-> 1, order |-> 1],
    [quiz |-> 1, question_type |-> "multi", points |-> 2, order |-> 2]>>

FixtureAnswers ==
  <<[question |-> 1, is_correct |-> FALSE],
    [question |-> 1, is_correct |-> TRUE],
    [question |-> 1, is_correct |-> FALSE],
    [question |-> 2, is_correct |-> FALSE],
    [question |-> 2, is_correct |-> TRUE],
    [question |-> 2, is_correct |-> FALSE],
    [question |-> 2, is_correct |-> TRUE]>>

InitScenario ==
  /\ questions = FixtureQuestions
  /\ answers = FixtureAnswers
  /\ strategies = BuiltinStrategies
  /\ ret = NoCall
  /\ attempts = <<>>
  /\ now = 0
  /\ reqs = <<>>
  /\ quizzes = AllActive
  /\ databases = {"default"}

ScenarioSubmissions ==
  DictsOver({Str(q) : q \in DOMAIN FixtureQuestions},
            ListsOver(DOMAIN FixtureAnswers, MaxScenarioSubmitted))

NextScenario ==
  \/ /\ Idle
     /\ \E s \in ScenarioSubmissions, d \in BOOLEAN :
           CalculateScore(1, s, d, FALSE)
  \/ Return

SpecScenario == InitScenario /\ [][NextScenario]_vars

\* ==================================================== the service layer
\* Optional[T]: None, or the value
None == <<>>

Some(v) == <<v>>

\* the User table
Users == 1..MaxUsers

\* Quiz.objects.get(id=quiz_id) finds a row: the Quiz table holds QuizIds
QuizExists(quiz_id) == quiz_id \in QuizIds

\* the clock ticks TicksPerSecond times a second, so that a timedelta's
\* total_seconds() can have a fraction
TicksPerSecond == 2

\* int(x) for the float x = ticks / TicksPerSecond: int() drops the fraction,
\* which rounds toward zero
IntOfSeconds(ticks) ==
  IF ticks >= 0
    THEN ticks \div TicksPerSecond
    ELSE 0 - ((0 - ticks) \div TicksPerSecond)

\* ---------------------------------------------------- QuizAttemptService
\* create_attempt as an update_or_create on (user, quiz): the user's row for
\* the quiz is overwritten if there is one
create_attempt_UpdateOrCreate(atts, clock, user, quiz, score, answers_data, started_at, time_taken_seconds) ==
  LET row == [user |-> user,
              quiz |-> quiz,
              score |-> score,
              answers_data |-> IF answers_data = None THEN <<>>
                               ELSE answers_data[1],
              started_at |-> IF started_at = None THEN clock
                             ELSE started_at[1],
              completed_at |-> clock,
              time_taken_seconds |-> time_taken_seconds]
      old == {i \in DOMAIN atts : atts[i].user = user /\ atts[i].quiz = quiz}
  IN IF old = {} THEN Append(atts, row)
     ELSE [i \in DOMAIN atts |-> IF i \in old THEN row ELSE atts[i]]

\* QuizAttemptService.create_attempt: UserQuizAttempt.objects.create inserts
\* one row, whose id is the next of the table; completed_at is auto_now_add,
\* started_at defaults to timezone.now(), answers_data to {}
create_attempt(atts, clock, user, quiz, score, answers_data, started_at, time_taken_seconds) ==
  Append(atts,
         [user |-> user,
          quiz |-> quiz,
          score |-> score,
          answers_data |-> IF answers_data = None THEN <<>>
                           ELSE answers_data[1],
          started_at |-> IF started_at = None THEN clock ELSE started_at[1],
          completed_at |-> clock,
          time_taken_seconds |-> time_taken_seconds])

\* the ids of every user's attempts: the query without filter(user=user)
UserAttemptIds_AllUsers(atts, user) == DOMAIN atts

\* UserQuizAttempt.objects.filter(user=user): the ids of the rows
UserAttemptIds(atts, user) == {i \in DOMAIN atts : atts[i].user = user}

\* the sequences that list every element of S once
Orderings(S) ==
  {s \in [1..Cardinality(S) -> S] :
     \A i, j \in 1..Cardinality(S) : i # j => s[i] # s[j]}

\* QuizAttemptService.get_user_attempts, evaluated: the rows of the user in
\* Meta.ordering = ['-completed_at'].  Rows with equal completed_at come in
\* an order the database chooses, so the result is one of a set of lists.
get_user_attempts(atts, user) ==
  {s \in Orderings(UserAttemptIds(atts, user)) :
     \A i, j \in DOMAIN s :
        i < j => atts[s[i]].completed_at >= atts[s[j]].completed_at}

\* QuizAttemptService.get_recent_attempts: get_user_attempts(user)[:limit]
get_recent_attempts(atts, user, limit) ==
  {SubSeq(s, 1, Min({limit, Len(s)})) : s \in get_user_attempts(atts, user)}

\* ------------------------------------------------------ UserStatsService
RECURSIVE SumScores(_, _)
\* the sum of the scores of the rows in S
SumScores(atts, S) ==
  IF S = {} THEN 0
  ELSE LET i == CHOOSE x \in S : TRUE
       IN atts[i].score + SumScores(atts, S \ {i})

\* the default of get_recent_attempts' limit
RecentLimit == 5

\* get_statistics with the mean cut to two places instead of rounded
get_statistics_MeanTruncated(atts, user) ==
  LET S == UserAttemptIds(atts, user)
      n == Cardinality(S)
  IN {[total_quizzes |-> n,
       average_score |-> IF n = 0 THEN 0 ELSE SumScores(atts, S) \div n,
       highest_score |-> IF n = 0 THEN 0
                         ELSE CHOOSE m \in {atts[i].score : i \in S} :
                                \A i \in S : atts[i].score <= m,
       recent_attempts |-> r] :
        r \in get_recent_attempts(atts, user, RecentLimit)}

\* UserStatsService(user).get_statistics(): Avg and Max are None over no
\* rows, and None or 0 is 0; round(avg, 2) of a Decimal rounds half-even.
\* Scores and the average are in hundredths.  One result per order the
\* database may return the recent attempts in.
get_statistics(atts, user) ==
  LET S == UserAttemptIds(atts, user)
      n == Cardinality(S)
  IN {[total_quizzes |-> n,
       average_score |-> IF n = 0 THEN 0
                         ELSE RoundHalfEven(SumScores(atts, S), n),
       highest_score |-> IF n = 0 THEN 0
                         ELSE CHOOSE m \in {atts[i].score : i \in S} :
                                \A i \in S : atts[i].score <= m,
       recent_attempts |-> r] :
        r \in get_recent_attempts(atts, user, RecentLimit)}

\* ------------------------------------------------------------ QuizService
\* the time taken of submit_quiz: None without started_at (a datetime is
\* always true), else int() of the seconds from started_at to now
time_taken(clock, started_at) ==
  IF started_at = None THEN None
  ELSE Some(IntOfSeconds(clock - started_at[1]))

\* the save of submit_quiz storing the points earned where the percentage
\* belongs
save_attempt_StoresEarnedPoints(atts, clock, user, quiz_id, submitted_answers, started_at, r, time_taken_seconds) ==
  IF r.raised # "none"
    THEN [raised |-> r.raised, attempts |-> atts, result |-> None]
    ELSE [raised |-> "none",
          attempts |->
            create_attempt(atts, clock, user, quiz_id, r.earned_points,
              Some([submitted_answers |-> submitted_answers,
                    detailed_results |-> r.detailed_results]),
              started_at, time_taken_seconds),
          result |-> [score |-> r.score,
                      total_points |-> r.total_points,
                      earned_points |-> r.earned_points,
                      percentage |-> r.score,
                      results |-> r.detailed_results,
                      time_taken_seconds |-> time_taken_seconds]]

\* submit_quiz from the result r of calculate_score on: create_attempt and
\* the dict returned; float(score) is the score, in hundredths.  An exception
\* of calculate_score propagates.
save_attempt(atts, clock, user, quiz_id, submitted_answers, started_at, r, time_taken_seconds) ==
  IF r.raised # "none"
    THEN [raised |-> r.raised, attempts |-> atts, result |-> None]
    ELSE [raised |-> "none",
          attempts |->
            create_attempt(atts, clock, user, quiz_id, r.score,
              Some([submitted_answers |-> submitted_answers,
                    detailed_results |-> r.detailed_results]),
              started_at, time_taken_seconds),
          result |-> [score |-> r.score,
                      total_points |-> r.total_points,
                      earned_points |-> r.earned_points,
                      percentage |-> r.score,
                      results |-> r.detailed_results,
                      time_taken_seconds |-> time_taken_seconds]]

\* submit_quiz saving the attempt before it looks the quiz up
submit_quiz_RecordsBeforeLookup(strats, qs, ans, atts, clock, user, quiz_id, submitted_answers, started_at) ==
  IF ~QuizExists(quiz_id)
    THEN [raised |-> "QuizNotFoundException",
          attempts |-> create_attempt(atts, clock, user, quiz_id, 0, None,
                                      started_at, None),
          result |-> None]
    ELSE save_attempt(atts, clock, user, quiz_id, submitted_answers,
                      started_at,
                      calculate_score(strats, qs, ans, quiz_id,
                                      submitted_answers, TRUE),
                      time_taken(clock, started_at))

\* QuizService.submit_quiz: get_quiz, calculate_score with details, the time
\* taken, create_attempt, and the dict returned
submit_quiz(strats, qs, ans, atts, clock, user, quiz_id, submitted_answers, started_at) ==
  IF ~QuizExists(quiz_id)
    THEN [raised |-> "QuizNotFoundException", attempts |-> atts,
          result |-> None]
    ELSE save_attempt(atts, clock, user, quiz_id, submitted_answers,
                      started_at,
                      calculate_score(strats, qs, ans, quiz_id,
                                      submitted_answers, TRUE),
                      time_taken(clock, started_at))

\* ------------------------------------- QuizAnswerSubmissionSerializer
\* the request body's answers object: its (question id, answer ids) pairs in
\* the order of the payload, which is the order dict.items() yields them in
ItemKeys(items) == {items[i][1] : i \in DOMAIN items}

\* the dict the pairs make
DictOf(items) ==
  [k \in ItemKeys(items) |->
     items[CHOOSE i \in DOMAIN items : items[i][1] = k][2]]

NoError == [code |-> "none"]

\* question_dict of validate: str(q.id) of the questions of the quiz
question_dict(qs, quiz_id) ==
  {Str(q) : q \in {x \in DOMAIN qs : qs[x].quiz = quiz_id}}

\* the loop body without the check on single-choice questions
ItemError_NoSingleCheck(qs, ans, quiz_id, question_id, answer_ids) ==
  IF question_id \notin question_dict(qs, quiz_id)
    THEN [code |-> "question_not_in_quiz",
          question_id |-> question_id, quiz_id |-> quiz_id]
    ELSE LET question == CHOOSE q \in DOMAIN qs : Str(q) = question_id
             valid_answer_ids == QuestionAnswers(ans, question)
             bad == {i \in DOMAIN answer_ids :
                       answer_ids[i] \notin valid_answer_ids}
         IN IF bad # {}
              THEN [code |-> "answer_not_in_question",
                    answer_id |-> answer_ids[Min(bad)],
                    question_id |-> question_id]
            ELSE NoError

\* one iteration of validate's loop: the ValidationError it raises, if any
ItemError(qs, ans, quiz_id, question_id, answer_ids) ==
  IF question_id \notin question_dict(qs, quiz_id)
    THEN [code |-> "question_not_in_quiz",
          question_id |-> question_id, quiz_id |-> quiz_id]
    ELSE LET question == CHOOSE q \in DOMAIN qs : Str(q) = question_id
             valid_answer_ids == QuestionAnswers(ans, question)
             bad == {i \in DOMAIN answer_ids :
                       answer_ids[i] \notin valid_answer_ids}
         IN IF qs[question].question_type = "single" /\ Len(answer_ids) > 1
              THEN [code |-> "single_choice_many_answers",
                    question_id |-> question_id, count |-> Len(answer_ids)]
            ELSE IF bad # {}
              THEN [code |-> "answer_not_in_question",
                    answer_id |-> answer_ids[Min(bad)],
                    question_id |-> question_id]
            ELSE NoError

RECURSIVE validate_from(_, _, _, _, _)
\* validate's loop from the i-th pair on: the first ValidationError raised
validate_from(qs, ans, quiz_id, items, i) ==
  IF i > Len(items) THEN NoError
  ELSE LET e == ItemError(qs, ans, quiz_id, items[i][1], items[i][2])
       IN IF e # NoError THEN e
          ELSE validate_from(qs, ans, quiz_id, items, i + 1)

\* serializer.is_valid(): validate_quiz_id, and validate only if the fields
\* passed; errors is what serializer.errors reports
is_valid(qs, ans, data) ==
  IF ~QuizExists(data.quiz_id)
    THEN [valid |-> FALSE,
          errors |-> [code |-> "quiz_does_not_exist",
                      quiz_id |-> data.quiz_id]]
    ELSE LET e == validate_from(qs, ans, data.quiz_id, data.answers, 1)
         IN [valid |-> e = NoError, errors |-> e]

\* -------------------------------------------------- the read serializers
\* AnswerSerializer without the write_only flags (AnswerDetailSerializer)
AnswerSerializer_data_Readable(ans, a) ==
  [id |-> a, is_correct |-> ans[a].is_correct,
   explanation |-> Explanation(ans, a)]

\* AnswerSerializer(answer).data: is_correct and explanation are write_only
AnswerSerializer_data(ans, a) == [id |-> a]

\* QuestionSerializer(question).data
QuestionSerializer_data(qs, ans, q) ==
  [id |-> q,
   question_type |-> qs[q].question_type,
   points |-> qs[q].points,
   answers |-> [i \in 1..Cardinality(QuestionAnswers(ans, q)) |->
                  AnswerSerializer_data(ans,
                    SortedSeq(QuestionAnswers(ans, q))[i])]]

\* QuizSerializer(quiz).data
QuizSerializer_data(qs, quiz) ==
  [id |-> quiz,
   question_count |-> Cardinality({q \in DOMAIN qs : qs[q].quiz = quiz})]

\* QuizDetailSerializer(quiz).data
QuizDetailSerializer_data(qs, ans, quiz) ==
  [id |-> quiz,
   questions |-> [i \in 1..Len(QuizQuestions(qs, quiz)) |->
                    QuestionSerializer_data(qs, ans, QuizQuestions(qs, quiz)[i])],
   total_points |-> SumPoints(qs, {q \in DOMAIN qs : qs[q].quiz = quiz})]

\* UserQuizAttemptSerializer(attempt).data
UserQuizAttemptSerializer_data(atts, i) ==
  [id |-> i, quiz_id |-> atts[i].quiz, score |-> atts[i].score,
   completed_at |-> atts[i].completed_at]

\* UserStatsSerializer(stats).data
UserStatsSerializer_data(atts, stats) ==
  [total_quizzes |-> stats.total_quizzes,
   average_score |-> stats.average_score,
   highest_score |-> stats.highest_score,
   recent_attempts |-> [k \in DOMAIN stats.recent_attempts |->
      UserQuizAttemptSerializer_data(atts, stats.recent_attempts[k])]]

\* -------------------------------------------------------------- the views
\* int(s): the number the numeral s denotes, or the ValueError
int(s) ==
  IF \E n \in 0..(MaxQuizzes + 1) : Str(n) = s
    THEN [raised |-> "none",
          value |-> CHOOSE n \in 0..(MaxQuizzes + 1) : Str(n) = s]
    ELSE [raised |-> "ValueError", value |-> 0]

\* the response of QuizViewSet.submit and the attempt table it leaves, from
\* the outcome of is_valid(), of int(pk) and of submit_quiz: the early return
\* on an invalid body, and the except clauses
submit_response(atts, serializer, quiz_id, s) ==
  IF ~serializer.valid
    THEN [status |-> 400, body |-> serializer.errors, attempts |-> atts]
  ELSE IF quiz_id.raised # "none"
    THEN [status |-> 500, body |-> [error |-> "unexpected"],
          attempts |-> atts]
  ELSE IF s.raised = "QuizNotFoundException"
    THEN [status |-> 404, body |-> [error |-> "quiz_not_found"],
          attempts |-> s.attempts]
  ELSE IF s.raised = "InvalidSubmissionError"
    THEN [status |-> 400, body |-> [error |-> "invalid_submission"],
          attempts |-> s.attempts]
  ELSE IF s.raised # "none"
    THEN [status |-> 500, body |-> [error |-> "unexpected"],
          attempts |-> s.attempts]
  ELSE [status |-> 200, body |-> s.result, attempts |-> s.attempts]

\* QuizViewSet.submit.  The service is called with the pk of the URL and
\* without started_at.
QuizViewSet_submit(strats, qs, ans, atts, clock, user, pk, data) ==
  submit_response(atts, is_valid(qs, ans, data), int(pk),
                  submit_quiz(strats, qs, ans, atts, clock, user,
                              int(pk).value, DictOf(data.answers), None))

\* QuizViewSet.list: the quizzes in Meta.ordering = ['-created_at'], which is
\* from the last created to the first
QuizViewSet_list(qs) ==
  [status |-> 200,
   body |-> [i \in 1..MaxQuizzes |->
               QuizSerializer_data(qs, MaxQuizzes + 1 - i)]]

\* QuizViewSet.retrieve: get_quiz(pk); a pk that is no number makes the
\* lookup raise ValueError, which the view does not catch
QuizViewSet_retrieve(qs, ans, pk) ==
  IF int(pk).raised # "none"
    THEN [status |-> 500, body |-> [error |-> "unexpected"]]
  ELSE IF ~QuizExists(int(pk).value)
    THEN [status |-> 404, body |-> [error |-> "quiz_not_found"]]
  ELSE [status |-> 200,
        body |-> QuizDetailSerializer_data(qs, ans, int(pk).value)]

\* QuizViewSet.user_stats: one response per result of get_statistics
QuizViewSet_user_stats(atts, user) ==
  {[status |-> 200, body |-> UserStatsSerializer_data(atts, stats)] :
     stats \in get_statistics(atts, user)}

\* ------------------------------------------------- actions of the views
\* POST /api/quizzes/{pk}/submit/ with the body data
Submit(user, pk, data) ==
  /\ Len(attempts) < MaxViewAttempts
  /\ \E r \in {QuizViewSet_submit(strategies, questions, answers, attempts,
                                   now, user, pk, data)} :
        /\ ret' = [op |-> "submit", user |-> user, pk |-> pk, data |-> data,
                   status |-> r.status, body |-> r.body]
        /\ attempts' = r.attempts
  /\ UNCHANGED <<questions, answers, strategies, now, reqs, quizzes, databases>>

\* GET /api/quizzes/
ListQuizzes(user) ==
  /\ LET r == QuizViewSet_list(questions)
     IN ret' = [op |-> "list", user |-> user,
                status |-> r.status, body |-> r.body]
  /\ UNCHANGED <<questions, answers, strategies, store>>

\* GET /api/quizzes/{pk}/
Retrieve(user, pk) ==
  /\ LET r == QuizViewSet_retrieve(questions, answers, pk)
     IN ret' = [op |-> "retrieve", user |-> user, pk |-> pk,
                status |-> r.status, body |-> r.body]
  /\ UNCHANGED <<questions, answers, strategies, store>>

\* GET /api/quizzes/user_stats/
UserStats(user) ==
  /\ \E r \in QuizViewSet_user_stats(attempts, user) :
        ret' = [op |-> "user_stats", user |-> user,
                status |-> r.status, body |-> r.body]
  /\ UNCHANGED <<questions, answers, strategies, store>>

\* the clock advances by one tick
Tick ==
  /\ now < MaxClock
  /\ now' = now + 1
  /\ UNCHANGED <<questions, answers, strategies, ret, attempts, reqs, quizzes, databases>>

\* a database of two quizzes: a single-choice question worth 1 point with a
\* wrong and a right answer in quiz 1, a multi-choice question worth 2 points
\* with one right answer in quiz 2
ApiQuestions ==
  <<[quiz |-> 1, question_type |-> "single", points |-> 1, order |-> 0],
    [quiz |-> 2, question_type |-> "multi", points |-> 2, order |-> 0]>>

ApiAnswers ==
  <<[question |-> 1, is_correct |-> FALSE],
    [question |-> 1, is_correct |-> TRUE],
    [question |-> 2, is_correct |-> TRUE]>>

InitApi ==
  /\ questions = ApiQuestions
  /\ answers = ApiAnswers
  /\ strategies = BuiltinStrategies
  /\ ret = NoCall
  /\ attempts = <<>>
  /\ now = 0
  /\ reqs = <<>>
  /\ quizzes = AllActive
  /\ databases = {"default"}

\* the pk of a URL: the numeral of a quiz, of no quiz, and a word
PkValues == {Str(q) : q \in 1..(MaxQuizzes + 1)} \cup {"x"}

\* the answers objects of the requests: at most one pair for each question,
\* in either order, each with a list of at most MaxViewSubmitted answer ids
ViewPayloads ==
  LET pairs == {Str(q) : q \in DOMAIN ApiQuestions}
                 \X ListsOver(DOMAIN ApiAnswers, MaxViewSubmitted)
  IN {items \in UNION {[1..k -> pairs] : k \in 0..Len(ApiQuestions)} :
        \A i, j \in DOMAIN items : i # j => items[i][1] # items[j][1]}

NextView ==
  \/ /\ Idle
     /\ \E user \in Users, pk \in PkValues, quiz_id \in 1..(MaxQuizzes + 1),
           items \in ViewPayloads :
           Submit(user, pk, [quiz_id |-> quiz_id, answers |-> items,
                             started_at |-> None])
  \/ /\ Idle
     /\ \E user \in Users : ListQuizzes(user)
  \/ /\ Idle
     /\ \E user \in Users, pk \in PkValues : Retrieve(user, pk)
  \/ /\ Idle
     /\ \E user \in Users : UserStats(user)
  \/ Return

SpecView == InitApi /\ [][NextView]_vars

\* --------------------------------- QuizService.submit_quiz called directly
\* QuizService.submit_quiz(user, quiz_id, submitted_answers, started_at)
SubmitQuizCall(user, quiz_id, submitted_answers, started_at) ==
  /\ Len(attempts) < MaxTimingAttempts
  /\ \E r \in {submit_quiz(strategies, questions, answers, attempts, now,
                            user, quiz_id, submitted_answers, started_at)} :
        /\ ret' = [op |-> "submit_quiz", user |-> user, quiz_id |-> quiz_id,
                   submitted_answers |-> submitted_answers,
                   started_at |-> started_at,
                   raised |-> r.raised, result |-> r.result]
        /\ attempts' = r.attempts
  /\ UNCHANGED <<questions, answers, strategies, now, reqs, quizzes, databases>>

\* started_at of a call: none, or a time up to MaxStart ticks, which can be
\* later than the clock ever gets
StartTimes == {None} \cup {Some(t) : t \in 0..MaxStart}

NextTiming ==
  \/ /\ Idle
     /\ \E user \in Users, quiz_id \in 1..(MaxQuizzes + 1),
           s \in DictsOver({"1"}, ListsOver(QuestionAnswers(ApiAnswers, 1), 1)),
           started_at \in StartTimes :
           SubmitQuizCall(user, quiz_id, s, started_at)
  \/ /\ Idle
     /\ Tick
  \/ Return

SpecTiming == InitApi /\ [][NextTiming]_vars

\* ------------------------------ the attempt and statistics services called
\* QuizAttemptService.create_attempt(user, quiz, score)
CreateAttemptCall(user, quiz, score) ==
  /\ Len(attempts) < MaxStatAttempts
  /\ attempts' = create_attempt(attempts, now, user, quiz, score,
                                None, None, None)
  /\ UNCHANGED <<questions, answers, strategies, ret, now, reqs, quizzes, databases>>

\* QuizAttemptService.get_user_attempts(user), evaluated
GetUserAttemptsCall(user) ==
  /\ \E r \in get_user_attempts(attempts, user) :
        ret' = [op |-> "get_user_attempts", user |-> user, result |-> r]
  /\ UNCHANGED <<questions, answers, strategies, store>>

\* QuizAttemptService.get_recent_attempts(user, limit), evaluated
GetRecentAttemptsCall(user, limit) ==
  /\ \E r \in get_recent_attempts(attempts, user, limit) :
        ret' = [op |-> "get_recent_attempts", user |-> user,
                limit |-> limit, result |-> r]
  /\ UNCHANGED <<questions, answers, strategies, store>>

\* UserStatsService(user).get_statistics()
GetStatisticsCall(user) ==
  /\ \E r \in get_statistics(attempts, user) :
        ret' = [op |-> "get_statistics", user |-> user, result |-> r]
  /\ UNCHANGED <<questions, answers, strategies, store>>

\* the scores of the attempts created: 0.00, 33.33 and 100.00
StatScores == {0, 3333, 10000}

NextStats ==
  \/ /\ Idle
     /\ \E user \in Users, quiz \in QuizIds, score \in StatScores :
           CreateAttemptCall(user, quiz, score)
  \/ /\ Idle
     /\ \E user \in Users : GetUserAttemptsCall(user)
  \/ /\ Idle
     /\ \E user \in Users, limit \in 0..MaxLimit :
           GetRecentAttemptsCall(user, limit)
  \/ /\ Idle
     /\ \E user \in Users : GetStatisticsCall(user)
  \/ /\ Idle
     /\ Tick
  \/ Return

SpecStats == InitApi /\ [][NextStats]_vars

\* ------------------------------------ the views over any marking of answers
\* the database of two quizzes with every marking of its answers as correct
\* or not and with or without an explanation
InitDisclosure ==
  /\ questions = ApiQuestions
  /\ answers \in {f \in [DOMAIN ApiAnswers ->
                           [question : DOMAIN ApiQuestions,
                            is_correct : BOOLEAN,
                            explanation : {"", "because"}]] :
                    \A a \in DOMAIN ApiAnswers :
                       f[a].question = ApiAnswers[a].question}
  /\ strategies = BuiltinStrategies
  /\ ret = NoCall
  /\ attempts = <<>>
  /\ now = 0
  /\ reqs = <<>>
  /\ quizzes = AllActive
  /\ databases = {"default"}

\* the answers objects with at most one pair and at most one answer id
ShortPayloads ==
  {items \in ViewPayloads :
     /\ Len(items) <= 1
     /\ \A i \in DOMAIN items : Len(items[i][2]) <= 1}

NextDisclosure ==
  \/ /\ Idle
     /\ \E user \in Users, pk \in PkValues, quiz_id \in QuizIds,
           items \in ShortPayloads :
           Submit(user, pk, [quiz_id |-> quiz_id, answers |-> items,
                             started_at |-> None])
  \/ /\ Idle
     /\ \E user \in Users : ListQuizzes(user)
  \/ /\ Idle
     /\ \E user \in Users, pk \in PkValues : Retrieve(user, pk)
  \/ /\ Idle
     /\ \E user \in Users : UserStats(user)
  \/ Return

SpecDisclosure == InitDisclosure /\ [][NextDisclosure]_vars

\* ------------------------------------------- submit requests in parallel
\* a request arrives and QuizViewSet.submit validates its body
ReqValidate(user, pk, data) ==
  /\ Len(reqs) < MaxRequests
  /\ LET serializer == is_valid(questions, answers, data)
     IN reqs' = Append(reqs,
          [user |-> user, pk |-> pk, data |-> data,
           pc |-> IF serializer.valid THEN "get_quiz" ELSE "done",
           status |-> IF serializer.valid THEN 0 ELSE 400,
           body |-> IF serializer.valid THEN None ELSE serializer.errors,
           quiz |-> 0, scored |-> None, attempt |-> 0])
  /\ UNCHANGED <<questions, answers, strategies, ret, attempts, now, quizzes, databases>>

\* int(pk) and QuizService.get_quiz of submit_quiz
ReqGetQuiz(r) ==
  /\ r \in DOMAIN reqs
  /\ reqs[r].pc = "get_quiz"
  /\ reqs' = [reqs EXCEPT ![r] =
       IF int(reqs[r].pk).raised # "none"
         THEN [@ EXCEPT !.pc = "done", !.status = 500,
                        !.body = [error |-> "unexpected"]]
       ELSE IF ~QuizExists(int(reqs[r].pk).value)
         THEN [@ EXCEPT !.pc = "done", !.status = 404,
                        !.body = [error |-> "quiz_not_found"]]
       ELSE [@ EXCEPT !.pc = "calculate_score",
                      !.quiz = int(reqs[r].pk).value]]
  /\ UNCHANGED <<questions, answers, strategies, ret, attempts, now, quizzes, databases>>

\* calculate_score of submit_quiz
ReqScore(r) ==
  /\ r \in DOMAIN reqs
  /\ reqs[r].pc = "calculate_score"
  /\ LET s == calculate_score(strategies, questions, answers, reqs[r].quiz,
                              DictOf(reqs[r].data.answers), TRUE)
     IN reqs' = [reqs EXCEPT ![r] =
          IF s.raised # "none"
            THEN [@ EXCEPT !.pc = "done", !.status = 500,
                           !.body = [error |-> "unexpected"]]
            ELSE [@ EXCEPT !.pc = "create_attempt", !.scored = Some(s)]]
  /\ UNCHANGED <<questions, answers, strategies, ret, attempts, now, quizzes, databases>>

\* create_attempt of submit_quiz, and the response; the view passes no
\* started_at, so no time is taken
ReqCreate(r) ==
  /\ r \in DOMAIN reqs
  /\ reqs[r].pc = "create_attempt"
  /\ LET s == reqs[r].scored[1]
         saved == create_attempt(attempts, now, reqs[r].user, reqs[r].quiz,
                    s.score,
                    Some([submitted_answers |-> DictOf(reqs[r].data.answers),
                          detailed_results |-> s.detailed_results]),
                    None, None)
     IN /\ attempts' = saved
        /\ reqs' = [reqs EXCEPT ![r] =
             [@ EXCEPT !.pc = "done", !.status = 200,
                       !.attempt = Len(saved),
                       !.body = [score |-> s.score,
                                 total_points |-> s.total_points,
                                 earned_points |-> s.earned_points,
                                 percentage |-> s.score,
                                 results |-> s.detailed_results,
                                 time_taken_seconds |-> None]]]
  /\ UNCHANGED <<questions, answers, strategies, ret, now, quizzes, databases>>

NextConcurrent ==
  \/ \E user \in Users, pk \in PkValues, quiz_id \in QuizIds,
        items \in ShortPayloads :
        ReqValidate(user, pk, [quiz_id |-> quiz_id, answers |-> items,
                               started_at |-> None])
  \/ \E r \in 1..MaxRequests : ReqGetQuiz(r)
  \/ \E r \in 1..MaxRequests : ReqScore(r)
  \/ \E r \in 1..MaxRequests : ReqCreate(r)

SpecConcurrent == InitApi /\ [][NextConcurrent]_vars

\* ---------------------------------------------- scores of the attempt table
\* UserQuizAttempt.clean: the ValidationError it raises, if any; score is in
\* hundredths
UserQuizAttempt_clean(score) ==
  IF score < 0 \/ score > 10000 THEN "ValidationError" ELSE "none"

\* UserQuizAttempt(user=..., quiz=..., score=score).clean()
AttemptCleanCall(score) ==
  /\ ret' = [op |-> "clean", score |-> score,
             raised |-> UserQuizAttempt_clean(score)]
  /\ UNCHANGED <<questions, answers, strategies, store>>

\* the scores a caller passes: -0.01, 0.00, 100.00, 100.01 and 150.00
AttemptScores == {0 - 1, 0, 10000, 10001, 15000}

NextAttempt ==
  \/ /\ Idle
     /\ \E user \in Users, quiz \in QuizIds, score \in AttemptScores :
           CreateAttemptCall(user, quiz, score)
  \/ /\ Idle
     /\ \E user \in Users, quiz_id \in QuizIds,
           s \in DictsOver({"1"}, ListsOver(QuestionAnswers(ApiAnswers, 1), 1)) :
           SubmitQuizCall(user, quiz_id, s, None)
  \/ /\ Idle
     /\ \E score \in AttemptScores : AttemptCleanCall(score)
  \/ Return

SpecAttempt == InitApi /\ [][NextAttempt]_vars

\* ------------------------------------------- the factory called directly
\* ScoringStrategyFactory.register_strategy: the TypeError for a class that
\* is no subclass of QuestionScoringStrategy, else the registry with the
\* class stored under the tag
register_strategy(strats, question_type, strategy_class) ==
  IF strategy_class \notin SubclassesOfBase
    THEN [raised |-> "TypeError", strategies |-> strats]
    ELSE [raised |-> "none",
          strategies |->
            [t \in DOMAIN strats \cup {question_type} |->
               IF t = question_type THEN strategy_class ELSE strats[t]]]

\* a call of ScoringStrategyFactory.register_strategy(tag, cls)
RegisterStrategy(question_type, strategy_class) ==
  /\ \E r \in {register_strategy(strategies, question_type, strategy_class)} :
        /\ ret' = [op |-> "register_strategy",
                   question_type |-> question_type,
                   strategy_class |-> strategy_class,
                   raised |-> r.raised]
        /\ strategies' = r.strategies
  /\ UNCHANGED <<questions, answers, store>>

\* a call of ScoringStrategyFactory.get_strategy(tag)
GetStrategyCall(question_type) ==
  /\ ret' = [op |-> "get_strategy", question_type |-> question_type,
             result |-> get_strategy(strategies, question_type)]
  /\ UNCHANGED <<questions, answers, strategies, store>>

\* the classes a caller passes to register_strategy: the subclasses of the
\* base, the base, and a class that is no subclass
RegisteredClasses == SubclassesOfBase \cup {"object"}

\* the tags of the calls: the three built-in tags, the tag of the docstring's
\* example, and a tag that is never registered
RegistryTags == QuestionTypes \cup {"essay"}

NextRegistry ==
  \/ /\ Idle
     /\ \E t \in QuestionTypes, cls \in RegisteredClasses :
           RegisterStrategy(t, cls)
  \/ /\ Idle
     /\ \E t \in RegistryTags : GetStrategyCall(t)
  \/ Return

SpecRegistry == Init /\ [][NextRegistry]_vars

\* ------------------------------------- scoring over any order of questions
\* a single-choice, a multi-choice and a select-words question, each worth 1
\* or 2 points and at order 0 or 1; the third is of quiz 1 or of quiz 2.  The
\* first owns a right and a wrong answer, the others a right answer each.
DetailAnswers ==
  <<[question |-> 1, is_correct |-> TRUE],
    [question |-> 1, is_correct |-> FALSE],
    [question |-> 2, is_correct |-> TRUE],
    [question |-> 3, is_correct |-> TRUE]>>

InitDetails ==
  /\ questions \in
       {f \in [1..3 -> [quiz : QuizIds,
                        question_type : {"single", "multi", "select_words"},
                        points : {1, 2},
                        order : {0, 1}]] :
          /\ f[1].quiz = 1 /\ f[1].question_type = "single"
          /\ f[2].quiz = 1 /\ f[2].question_type = "multi"
          /\ f[3].question_type = "select_words"}
  /\ answers = DetailAnswers
  /\ strategies = BuiltinStrategies
  /\ ret = NoCall
  /\ attempts = <<>>
  /\ now = 0
  /\ reqs = <<>>
  /\ quizzes = AllActive
  /\ databases = {"default"}

\* submissions for the first and the third question, the second is left out
DetailSubmissions ==
  DictsOver({"1", "3"}, ListsOver(DOMAIN DetailAnswers, MaxDetailSubmitted))

NextDetails ==
  \/ /\ Idle
     /\ \E s \in DetailSubmissions, d \in BOOLEAN :
           CalculateScore(1, s, d, FALSE)
  \/ Return

SpecDetails == InitDetails /\ [][NextDetails]_vars

\* --------------------------------- scoring in a process that also registers
\* the requests of one process: some score a quiz, some register a class for
\* a tag; the registry is the class attribute that all of them share
NextShared ==
  \/ /\ Idle
     /\ \E t \in QuestionTypes, cls \in StrategyClasses \cup AbstractClasses :
           RegisterStrategy(t, cls)
  \/ /\ Idle
     /\ \E s \in DictsOver({"1"}, ListsOver(1..MaxEvalAnswers, 1)),
           d \in BOOLEAN :
           CalculateScore(1, s, d, FALSE)
  \/ Return

SpecShared == InitEval /\ [][NextShared]_vars

\* ------------------------------------- submit with started_at in the body
\* the started_at of a body: absent, or a time the DateTimeField accepts
BodyStartTimes == {None} \cup {Some(t) : t \in 0..MaxClock}

NextStart ==
  \/ /\ Idle
     /\ \E user \in Users, pk \in PkValues, quiz_id \in QuizIds,
           items \in ShortPayloads, started_at \in BodyStartTimes :
           Submit(user, pk, [quiz_id |-> quiz_id, answers |-> items,
                             started_at |-> started_at])
  \/ /\ Idle
     /\ Tick
  \/ Return

SpecStart == InitApi /\ [][NextStart]_vars

\* -------------------------------- user_stats in parallel with submissions
\* self._attempts.aggregate(avg_score=Avg('score'), max_score=Max('score')):
\* both None over no rows
attempts_aggregate(atts, user) ==
  LET S == UserAttemptIds(atts, user)
  IN IF S = {} THEN [avg_score |-> None, max_score |-> None]
     ELSE [avg_score |-> Some(RoundHalfEven(SumScores(atts, S),
                                            Cardinality(S))),
           max_score |-> Some(CHOOSE m \in {atts[i].score : i \in S} :
                                \A i \in S : atts[i].score <= m)]

\* self._attempts.count()
attempts_count(atts, user) == Cardinality(UserAttemptIds(atts, user))

\* x or 0 for an Optional number
OrZero(x) == IF x = None THEN 0 ELSE x[1]

\* GET /api/quizzes/user_stats/ arrives: UserStatsService(request.user) builds
\* the queryset, which runs no query yet
StatsBegin(user) ==
  /\ Len(reqs) < MaxRequests
  /\ reqs' = Append(reqs,
       [user |-> user, pc |-> "aggregate", rows |-> {},
        aggregates |-> [avg_score |-> None, max_score |-> None],
        total_quizzes |-> 0, recent_attempts |-> <<>>])
  /\ UNCHANGED <<questions, answers, strategies, ret, attempts, now, quizzes, databases>>

\* the aggregate query of get_statistics; rows is the set of rows it ran over
StatsAggregate(r) ==
  /\ r \in DOMAIN reqs
  /\ reqs[r].pc = "aggregate"
  /\ reqs' = [reqs EXCEPT ![r] =
       [@ EXCEPT !.pc = "count",
                 !.rows = UserAttemptIds(attempts, reqs[r].user),
                 !.aggregates = attempts_aggregate(attempts, reqs[r].user)]]
  /\ UNCHANGED <<questions, answers, strategies, ret, attempts, now, quizzes, databases>>

\* the count query of get_statistics
StatsCount(r) ==
  /\ r \in DOMAIN reqs
  /\ reqs[r].pc = "count"
  /\ reqs' = [reqs EXCEPT ![r] =
       [@ EXCEPT !.pc = "recent",
                 !.total_quizzes = attempts_count(attempts, reqs[r].user)]]
  /\ UNCHANGED <<questions, answers, strategies, ret, attempts, now, quizzes, databases>>

\* the query of get_recent_attempts, which runs when UserStatsSerializer
\* reads the queryset, and the response
StatsRecent(r) ==
  /\ r \in DOMAIN reqs
  /\ reqs[r].pc = "recent"
  /\ \E recent \in get_recent_attempts(attempts, reqs[r].user, RecentLimit) :
        reqs' = [reqs EXCEPT ![r] =
          [@ EXCEPT !.pc = "done", !.recent_attempts = recent]]
  /\ UNCHANGED <<questions, answers, strategies, ret, attempts, now, quizzes, databases>>

\* the statistics a finished request answers with
StatsOf(req) ==
  [total_quizzes |-> req.total_quizzes,
   average_score |-> OrZero(req.aggregates.avg_score),
   highest_score |-> OrZero(req.aggregates.max_score),
   recent_attempts |-> req.recent_attempts]

\* the scores of the attempts that submissions save meanwhile
RaceScores == {0, 10000}

NextStatsRace ==
  \/ \E user \in Users, score \in RaceScores :
        CreateAttemptCall(user, 1, score)
  \/ \E user \in Users : StatsBegin(user)
  \/ \E r \in 1..MaxRequests : StatsAggregate(r)
  \/ \E r \in 1..MaxRequests : StatsCount(r)
  \/ \E r \in 1..MaxRequests : StatsRecent(r)

SpecStatsRace == InitApi /\ [][NextStatsRace]_vars

\* ----------------------------- scoring in parallel with edits of answers
\* the record calculate_score appends when its queries read different states
\* of the Answer table: correct_answer_ids comes from a query of its own, the
\* options listed come from the rows prefetched when the loop started
DetailRecordRead(qs, ans, prefetched, q, is_correct, points_awarded, question_answers) ==
  [DetailRecord(qs, prefetched, q, is_correct, points_awarded,
                question_answers)
     EXCEPT !.correct_answer_ids = SortedSeq(CorrectAnswerIds(ans, q))]

\* answer.is_correct = flag; answer.save(), by an editor of the quiz
EditAnswer(a, flag) ==
  /\ a \in DOMAIN answers
  /\ answers[a].is_correct # flag
  /\ answers' = [answers EXCEPT ![a].is_correct = flag]
  /\ UNCHANGED <<questions, strategies, ret, store>>

\* calculate_score(submitted_answers, include_details=True) starts: the
\* queryset of the for loop is evaluated, which reads the quiz's questions and
\* prefetches their answers
ScoreBegin(quiz, submitted_answers) ==
  /\ Len(reqs) < MaxScoringCalls
  /\ reqs' = Append(reqs,
       [quiz |-> quiz, submitted_answers |-> submitted_answers,
        order |-> QuizQuestions(questions, quiz), prefetched |-> answers,
        n |-> 1, verdict |-> FALSE,
        pc |-> IF QuizQuestions(questions, quiz) = <<>>
                 THEN "done" ELSE "judge",
        total_points |-> 0, earned_points |-> 0, detailed_results |-> <<>>])
  /\ UNCHANGED <<questions, answers, strategies, ret, attempts, now, quizzes, databases>>

\* _is_answer_correct for the question of the iteration: the evaluator
\* queries the answers marked correct
ScoreJudge(r) ==
  /\ r \in DOMAIN reqs
  /\ reqs[r].pc = "judge"
  /\ LET q == reqs[r].order[reqs[r].n]
         question_answers == DictGet(reqs[r].submitted_answers, Str(q), <<>>)
     IN reqs' = [reqs EXCEPT ![r] =
          [@ EXCEPT !.pc = "record",
                    !.verdict = is_answer_correct(strategies, questions,
                                  answers, q, question_answers).value]]
  /\ UNCHANGED <<questions, answers, strategies, ret, attempts, now, quizzes, databases>>

\* the rest of the iteration: the points, the query of correct_answer_ids,
\* and the record appended
ScoreRecord(r) ==
  /\ r \in DOMAIN reqs
  /\ reqs[r].pc = "record"
  /\ LET q == reqs[r].order[reqs[r].n]
         question_answers == DictGet(reqs[r].submitted_answers, Str(q), <<>>)
         points_awarded == IF reqs[r].verdict THEN questions[q].points ELSE 0
     IN reqs' = [reqs EXCEPT ![r] =
          [@ EXCEPT !.pc = IF reqs[r].n = Len(reqs[r].order)
                             THEN "done" ELSE "judge",
                    !.n = reqs[r].n + 1,
                    !.total_points = @ + questions[q].points,
                    !.earned_points = @ + points_awarded,
                    !.detailed_results =
                       Append(@, DetailRecordRead(questions, answers,
                                   reqs[r].prefetched, q, reqs[r].verdict,
                                   points_awarded, question_answers))]]
  /\ UNCHANGED <<questions, answers, strategies, ret, attempts, now, quizzes, databases>>

\* the submissions of the scoring calls that run beside an editor
SnapshotSubmissions ==
  DictsOver({Str(q) : q \in DOMAIN ApiQuestions},
            ListsOver(DOMAIN ApiAnswers, 1))

NextSnapshot ==
  \/ \E a \in DOMAIN ApiAnswers, flag \in BOOLEAN : EditAnswer(a, flag)
  \/ \E quiz \in QuizIds, s \in SnapshotSubmissions : ScoreBegin(quiz, s)
  \/ \E r \in 1..MaxScoringCalls : ScoreJudge(r)
  \/ \E r \in 1..MaxScoringCalls : ScoreRecord(r)

SpecSnapshot == InitApi /\ [][NextSnapshot]_vars

\* ------------------------------------------- the authoring of questions
\* Question.clean of a question with text: pk is None before the first save.
\* The ValidationError it raises, if any.
Question_clean(ans, pk, question_type) ==
  IF /\ pk # None
     /\ question_type = "single"
     /\ Cardinality(CorrectAnswerIds(ans, pk[1])) # 1
    THEN "ValidationError"
    ELSE "none"

\* question.clean() of a row of the table
QuestionCleanCall(q) ==
  /\ q \in DOMAIN questions
  /\ ret' = [op |-> "question_clean", pk |-> Some(q),
             question_type |-> questions[q].question_type,
             raised |-> Question_clean(answers, Some(q),
                                       questions[q].question_type)]
  /\ UNCHANGED <<questions, answers, strategies, store>>

\* Question(quiz=..., question_type=...).clean() of an instance not saved
QuestionCleanUnsaved(question_type) ==
  /\ ret' = [op |-> "question_clean", pk |-> None,
             question_type |-> question_type,
             raised |-> Question_clean(answers, None, question_type)]
  /\ UNCHANGED <<questions, answers, strategies, store>>

NextAuthoring ==
  \/ /\ Idle
     /\ \E quiz \in QuizIds, t \in QuestionTypes, p \in PointValues,
           o \in OrderValues : CreateQuestion(quiz, t, p, o)
  \/ /\ Idle
     /\ \E q \in 1..MaxQuestions, c \in BOOLEAN : CreateAnswer(q, c)
  \/ /\ Idle
     /\ \E a \in 1..MaxAnswers, flag \in BOOLEAN : EditAnswer(a, flag)
  \/ /\ Idle
     /\ \E q \in 1..MaxQuestions : QuestionCleanCall(q)
  \/ /\ Idle
     /\ \E t \in QuestionTypes : QuestionCleanUnsaved(t)
  \/ Return

SpecAuthoring == Init /\ [][NextAuthoring]_vars

\* --------------------------------------------- quizzes that are not active
\* quiz.is_active = flag; quiz.save(), by an editor in the admin
SetActive(quiz, flag) ==
  /\ quiz \in DOMAIN quizzes
  /\ quizzes[quiz].is_active # flag
  /\ quizzes' = [quizzes EXCEPT ![quiz].is_active = flag]
  /\ UNCHANGED <<questions, answers, strategies, ret, attempts, now, reqs, databases>>

\* the database of two quizzes, each active or not
InitActive ==
  /\ questions = ApiQuestions
  /\ answers = ApiAnswers
  /\ strategies = BuiltinStrategies
  /\ ret = NoCall
  /\ attempts = <<>>
  /\ now = 0
  /\ reqs = <<>>
  /\ quizzes \in [QuizIds -> [is_active : BOOLEAN]]
  /\ databases = {"default"}

NextActive ==
  \/ /\ Idle
     /\ \E quiz \in QuizIds, flag \in BOOLEAN : SetActive(quiz, flag)
  \/ /\ Idle
     /\ \E user \in Users, pk \in PkValues, quiz_id \in QuizIds,
           items \in ShortPayloads :
           Submit(user, pk, [quiz_id |-> quiz_id, answers |-> items,
                             started_at |-> None])
  \/ /\ Idle
     /\ \E user \in Users : ListQuizzes(user)
  \/ /\ Idle
     /\ \E user \in Users, pk \in PkValues : Retrieve(user, pk)
  \/ Return

SpecActive == InitActive /\ [][NextActive]_vars

\* ---------------------------------------------------- PrimaryReplicaRouter
\* PrimaryReplicaRouter.db_for_read(model): the alias returned
db_for_read(model) == "replica"

\* PrimaryReplicaRouter.db_for_write(model)
db_for_write(model) == "default"

\* PrimaryReplicaRouter.allow_migrate(db, app_label)
allow_migrate(db, app_label) == db = "default"

\* PrimaryReplicaRouter.allow_relation(obj1, obj2), from obj._state.db of the
\* two objects: True, or None
allow_relation(db1, db2) ==
  IF db1 \in {"default", "replica"} /\ db2 \in {"default", "replica"}
    THEN Some(TRUE)
    ELSE None

\* the models of the project
Models == {"Quiz", "Question", "Answer", "UserQuizAttempt", "User"}

\* aliases of databases, and labels of apps
Aliases == {"default", "replica", "analytics_db", "logging_db"}

AppLabels == {"quiz_api", "auth", "admin"}

\* a read of a model is routed
DbForRead(model) ==
  /\ ret' = [op |-> "db_for_read", model |-> model,
             result |-> db_for_read(model)]
  /\ UNCHANGED <<questions, answers, strategies, store>>

\* a write of a model is routed
DbForWrite(model) ==
  /\ ret' = [op |-> "db_for_write", model |-> model,
             result |-> db_for_write(model)]
  /\ UNCHANGED <<questions, answers, strategies, store>>

\* migrate asks whether an app's migrations run on a database
AllowMigrate(db, app_label) ==
  /\ ret' = [op |-> "allow_migrate", db |-> db, app_label |-> app_label,
             result |-> allow_migrate(db, app_label)]
  /\ UNCHANGED <<questions, answers, strategies, store>>

\* a relation between two loaded objects is checked
AllowRelation(db1, db2) ==
  /\ ret' = [op |-> "allow_relation", db1 |-> db1, db2 |-> db2,
             result |-> allow_relation(db1, db2)]
  /\ UNCHANGED <<questions, answers, strategies, store>>

\* settings.DATABASES has 'default' and any of the other aliases
InitRouter ==
  /\ questions = <<>>
  /\ answers = <<>>
  /\ strategies = BuiltinStrategies
  /\ ret = NoCall
  /\ attempts = <<>>
  /\ now = 0
  /\ reqs = <<>>
  /\ quizzes = AllActive
  /\ databases \in {D \in SUBSET Aliases : "default" \in D}

NextRouter ==
  \/ /\ Idle
     /\ \E model \in Models : DbForRead(model)
  \/ /\ Idle
     /\ \E model \in Models : DbForWrite(model)
  \/ /\ Idle
     /\ \E db \in Aliases, app_label \in AppLabels :
           AllowMigrate(db, app_label)
  \/ /\ Idle
     /\ \E db1 \in databases, db2 \in databases : AllowRelation(db1, db2)
  \/ Return

SpecRouter == InitRouter /\ [][NextRouter]_vars

\* ====================================================== the properties
\* the ids of the answers of question q that are marked correct, read off the
\* Answer table
Marked(q) ==
  {a \in DOMAIN answers : answers[a].question = q /\ answers[a].is_correct}

\* C1: SingleChoiceStrategy.is_correct is true exactly when the question has
\* one answer marked correct and the submitted list is non-empty and holds
\* nothing but that answer's id; so another id, no id, several distinct ids,
\* or a question with no or several correct answers, give false.
C1_SingleChoiceIff ==
  (ret.op = "is_correct" /\ ret.cls = "SingleChoiceStrategy") =>
    LET l == ret.submitted_answer_ids
    IN ret.result <=>
         \E a \in Marked(ret.question) :
            /\ Marked(ret.question) = {a}
            /\ Len(l) >= 1
            /\ \A i \in 1..Len(l) : l[i] = a

\* C1 witness: a single-choice question judged correct on a list that repeats
\* the one correct id
C1_Witness ==
  /\ ret.op = "is_correct"
  /\ ret.cls = "SingleChoiceStrategy"
  /\ questions[ret.question].question_type = "single"
  /\ Len(ret.submitted_answer_ids) = 2
  /\ ret.result

\* C2: on a question of type multi or select_words, MultipleChoiceStrategy
\* and SelectWordsStrategy are true exactly when every submitted id is marked
\* correct and every id marked correct is submitted, and both give the same
\* verdict on the same input.
C2_SetEqualityIff ==
  (/\ ret.op = "is_correct"
   /\ ret.cls \in {"MultipleChoiceStrategy", "SelectWordsStrategy"}
   /\ questions[ret.question].question_type \in {"multi", "select_words"}) =>
    LET l == ret.submitted_answer_ids
        q == ret.question
    IN /\ ret.result <=>
            /\ \A i \in 1..Len(l) : l[i] \in Marked(q)
            /\ \A a \in Marked(q) : \E i \in 1..Len(l) : l[i] = a
       /\ ret.result = MultipleChoiceStrategy_is_correct(answers, q, l)
       /\ ret.result = SelectWordsStrategy_is_correct(answers, q, l)

\* C2 witness: a multi question with two correct answers judged correct on a
\* list that names them in descending order and repeats one
C2_Witness ==
  /\ ret.op = "is_correct"
  /\ ret.cls = "MultipleChoiceStrategy"
  /\ questions[ret.question].question_type = "multi"
  /\ Cardinality(Marked(ret.question)) = 2
  /\ Len(ret.submitted_answer_ids) = 3
  /\ ret.submitted_answer_ids[1] > ret.submitted_answer_ids[2]
  /\ ret.result

\* round-half-up of n / d to an integer, n >= 0, d > 0
RoundHalfUp(n, d) ==
  IF 2 * (n % d) >= d THEN (n \div d) + 1 ELSE n \div d

\* C5: for 0 <= earned <= total, total > 0, the percentage is
\* earned / total * 100 rounded half-up to two places.
C5_RoundHalfUp ==
  (ret.op = "calculate_percentage" /\ ret.total > 0) =>
    ret.result = RoundHalfUp(ret.earned * 10000, ret.total)

\* the three submissions of the scenario, as the specification words them
C7_StatedFull == ("1" :> <<4>>) @@ ("2" :> <<2, 4>>)
C7_StatedWrong == ("1" :> <<3>>) @@ ("2" :> <<2>>)
C7_StatedPartial == ("1" :> <<4>>) @@ ("2" :> <<2>>)

\* the same three selections by the ids the answers have in the tables
C7_FixtureFull == ("1" :> <<2>>) @@ ("2" :> <<5, 7>>)
C7_FixtureWrong == ("1" :> <<1>>) @@ ("2" :> <<5>>)
C7_FixturePartial == ("1" :> <<2>>) @@ ("2" :> <<5>>)

\* the call returned earned and total points and the score in hundredths
Scored(earned, total, score) ==
  /\ ret.result.raised = "none"
  /\ ret.result.earned_points = earned
  /\ ret.result.total_points = total
  /\ ret.result.score = score

QuizRows == {q \in DOMAIN questions : questions[q].quiz = ret.quiz}

\* the list the submission holds for question q, empty if it holds none
SubmittedFor(q) ==
  IF Str(q) \in DOMAIN ret.submitted_answers
    THEN ret.submitted_answers[Str(q)]
    ELSE <<>>

RECURSIVE TotalOver(_, _)
\* the sum of the points of the questions with ids 1..n that are in S
TotalOver(S, n) ==
  IF n = 0 THEN 0
  ELSE TotalOver(S, n - 1) + (IF n \in S THEN questions[n].points ELSE 0)

\* the sum of the points of the questions in S
Total(S) == TotalOver(S, Cardinality(DOMAIN questions))

\* the evaluator registered for the type of question q judges the submitted
\* list correct
Judged(q) ==
  /\ questions[q].question_type \in DOMAIN strategies
  /\ Strategy_is_correct(strategies[questions[q].question_type], answers, q,
                         SubmittedFor(q))

\* the detail records of the call
Details == ret.result.detailed_results

\* C3 as stated: a question of the quiz with no entry, or an empty entry, in
\* the submission is scored incorrect with 0 points awarded, whatever its type
\* and its correct answers, and its points still count in total_points.
C3_UnansweredIsIncorrect ==
  ret.op = "calculate_score" =>
    /\ ret.result.raised = "none"
    /\ ret.result.total_points = Total(QuizRows)
    /\ ret.result.earned_points
         <= Total({q \in QuizRows : SubmittedFor(q) # <<>>})
    /\ ret.result.has_details =>
         \A i \in 1..Len(Details) :
            Details[i].user_answer_ids = <<>> =>
              ~Details[i].is_correct /\ Details[i].points_awarded = 0

\* C4: total_points is the sum of the points of the quiz's questions, which
\* is Quiz.get_total_points(); earned_points is the sum of the points of the
\* questions the evaluator judged correct; each question is awarded all of its
\* points or none.
C4_SumLaw ==
  ret.op = "calculate_score" =>
    /\ ret.result.raised = "none"
    /\ ret.result.total_points = Total(QuizRows)
    /\ ret.result.total_points = get_total_points(questions, ret.quiz)
    /\ ret.result.earned_points = Total({q \in QuizRows : Judged(q)})
    /\ ret.result.has_details =>
         /\ {Details[i].question_id : i \in 1..Len(Details)} = QuizRows
         /\ \A i \in 1..Len(Details) :
              /\ Details[i].points = questions[Details[i].question_id].points
              /\ Details[i].is_correct <=> Judged(Details[i].question_id)
              /\ Details[i].points_awarded =
                   IF Details[i].is_correct THEN Details[i].points ELSE 0

\* C4 witness: a quiz of a 1-point and a 2-point question, one judged correct
\* and the other not
C4_Witness ==
  /\ ret.op = "calculate_score"
  /\ QuizRows = {1, 2}
  /\ questions[1].points # questions[2].points
  /\ ret.result.earned_points > 0
  /\ ret.result.earned_points < ret.result.total_points
  /\ Judged(1) # Judged(2)

\* C6: for a quiz whose questions' points sum to 0, every submission scores
\* 0.00 with total 0 and earned 0, and nothing is raised.
C6_ZeroTotal ==
  (ret.op = "calculate_score" /\ Total(QuizRows) = 0) => Scored(0, 0, 0)

\* C6 witness: a quiz whose questions are all worth 0 points, one of them
\* answered correctly
C6_Witness ==
  /\ ret.op = "calculate_score"
  /\ QuizRows # {}
  /\ Total(QuizRows) = 0
  /\ \E q \in QuizRows : Judged(q)
  /\ Scored(0, 0, 0)

\* the questions of the quiz whose type tag has no registered evaluator
UnknownType == {q \in QuizRows : questions[q].question_type \notin DOMAIN strategies}

\* C8: with a question of an unregistered type in the quiz, calculate_score
\* raises nothing; that question is incorrect with 0 points awarded and its
\* points count in total_points; the other questions are scored by their
\* evaluators as if that question were incorrect.
C8_UnknownTypeRecovered ==
  (ret.op = "calculate_score" /\ UnknownType # {}) =>
    /\ ret.result.raised = "none"
    /\ ret.result.total_points = Total(QuizRows)
    /\ ret.result.earned_points =
         Total({q \in QuizRows \ UnknownType : Judged(q)})
    /\ ret.result.has_details =>
         /\ Len(Details) = Cardinality(QuizRows)
         /\ \A i \in 1..Len(Details) :
              IF Details[i].question_id \in UnknownType
                THEN ~Details[i].is_correct /\ Details[i].points_awarded = 0
                ELSE /\ Details[i].is_correct <=> Judged(Details[i].question_id)
                     /\ Details[i].points_awarded =
                          IF Judged(Details[i].question_id)
                            THEN Details[i].points ELSE 0

\* C8 witness: a quiz of an answered question of an unregistered type worth
\* points and a question judged correct, scored with details
C8_Witness ==
  /\ ret.op = "calculate_score"
  /\ ret.result.has_details
  /\ \E u \in UnknownType :
       /\ questions[u].points > 0
       /\ SubmittedFor(u) # <<>>
       /\ \E q \in QuizRows \ UnknownType :
            /\ Judged(q)
            /\ ret.result.earned_points = questions[q].points
            /\ ret.result.earned_points > 0

\* the keys of the submission that name a question of the scored quiz
QuizKeys == {Str(q) : q \in QuizRows}

C11_OneNewAttemptAppendOnly ==
  [][/\ \A i \in DOMAIN attempts :
          i \in DOMAIN attempts' /\ attempts'[i] = attempts[i]
     /\ IF ret'.op = "submit" /\ ret'.status = 200
          THEN /\ Len(attempts') = Len(attempts) + 1
               /\ LET a == attempts'[Len(attempts')]
                  IN /\ a.user = ret'.user
                     /\ Str(a.quiz) = ret'.pk
                     /\ a.score = ret'.body.percentage
                     /\ a.score = ret'.body.score
                     /\ a.completed_at = now'
                     /\ a.answers_data.submitted_answers
                          = DictOf(ret'.data.answers)
          ELSE attempts' = attempts]_vars

\* C11 witness: a user's retake of a quiz has been recorded after their first
\* attempt, with another score
C11_Witness ==
  /\ ret.op = "submit"
  /\ ret.status = 200
  /\ Len(attempts) = 2
  /\ attempts[1].user = attempts[2].user
  /\ attempts[1].quiz = attempts[2].quiz
  /\ attempts[1].score # attempts[2].score
  /\ attempts[2].score = ret.body.percentage

\* C12: a submit answers 200, 400, 404 or 500; a step that answers 400, 404
\* or 500 leaves the attempt table as it was, and a step that answers 200
\* adds one attempt.
C12_ErrorPersistsNothing ==
  [][ret'.op = "submit" =>
       /\ ret'.status \in {200, 400, 404, 500}
       /\ ret'.status # 200 => attempts' = attempts
       /\ ret'.status = 200 => Len(attempts') = Len(attempts) + 1]_vars

\* C12 witness: a submit has answered 500 after its payload passed validation,
\* with an earlier attempt in the table
C12_Witness ==
  /\ ret.op = "submit"
  /\ ret.status = 500
  /\ is_valid(questions, answers, ret.data).valid
  /\ ItemKeys(ret.data.answers) # {}
  /\ Len(attempts) = 1

\* the keys of a submit's payload that are no ids of questions of the quiz
\* its URL names
OutsideUrlQuiz(call) ==
  {k \in ItemKeys(call.data.answers) :
     \/ int(call.pk).raised # "none"
     \/ k \notin {Str(q) : q \in {x \in DOMAIN questions :
                                    questions[x].quiz = int(call.pk).value}}}

\* C13 as stated: a submit whose payload has a question id outside the quiz of
\* the URL answers with a client error and creates no attempt, whatever the
\* quiz_id of the body.
C13_OutsideQuizRejected ==
  [][(ret'.op = "submit" /\ OutsideUrlQuiz(ret') # {}) =>
       /\ ret'.status \in 400..499
       /\ attempts' = attempts]_vars

\* the question a payload key names, if it names one
KeyQuestions(k) == {q \in DOMAIN questions : Str(q) = k}

\* the pair has several answer ids for a single-choice question
SingleChoiceMany(item) ==
  \E q \in KeyQuestions(item[1]) :
     questions[q].question_type = "single" /\ Len(item[2]) > 1

\* the answer ids of the pair that are no answers of the question of the pair
ForeignAnswers(item) ==
  {item[2][i] : i \in DOMAIN item[2]} \
    {a \in DOMAIN answers : answers[a].question \in KeyQuestions(item[1])}

\* the payload has one of the two violations
HasViolation(items) ==
  \E i \in DOMAIN items :
     SingleChoiceMany(items[i]) \/ ForeignAnswers(items[i]) # {}

\* the error names a single-choice question given several ids, or an answer
\* id that is no answer of the question it is listed under
NamesViolation(body, items) ==
  \E i \in DOMAIN items :
     \/ /\ body.code = "single_choice_many_answers"
        /\ body.question_id = items[i][1]
        /\ SingleChoiceMany(items[i])
     \/ /\ body.code = "answer_not_in_question"
        /\ body.question_id = items[i][1]
        /\ body.answer_id \in ForeignAnswers(items[i])

\* the error names the quiz_id of the body, which is no quiz, or a question id
\* of the payload that is no question of the quiz of the body
NamesOutsideQuiz(body, data) ==
  \/ /\ body.code = "quiz_does_not_exist"
     /\ body.quiz_id = data.quiz_id
     /\ ~QuizExists(data.quiz_id)
  \/ /\ body.code = "question_not_in_quiz"
     /\ body.question_id \in ItemKeys(data.answers)
     /\ body.question_id \notin question_dict(questions, data.quiz_id)

\* C14 as stated: a payload with several ids for a single-choice question, or
\* with an answer id that is no answer of its question, is answered 400 with
\* that id named and creates no attempt; a payload with neither is not
\* answered 400.
C14_AsStated ==
  [][ret'.op = "submit" =>
       IF HasViolation(ret'.data.answers)
         THEN /\ ret'.status = 400
              /\ NamesViolation(ret'.body, ret'.data.answers)
              /\ attempts' = attempts
         ELSE ret'.status # 400]_vars

\* C14 amended: a payload with one of the two violations is answered 400 and
\* creates no attempt, and the response names the first offence met: the
\* quiz_id of the body if it is no quiz, a question id that is no question of
\* the body's quiz, the single-choice question given several ids, or the
\* answer id that is no answer of its question.  A payload with neither
\* violation, whose body names a quiz and whose question ids all belong to
\* that quiz, is not answered 400.
C14_ViolationsRejected ==
  [][ret'.op = "submit" =>
       /\ HasViolation(ret'.data.answers) =>
            /\ ret'.status = 400
            /\ \/ NamesViolation(ret'.body, ret'.data.answers)
               \/ NamesOutsideQuiz(ret'.body, ret'.data)
            /\ attempts' = attempts
       /\ (/\ ~HasViolation(ret'.data.answers)
           /\ QuizExists(ret'.data.quiz_id)
           /\ ItemKeys(ret'.data.answers)
                \subseteq question_dict(questions, ret'.data.quiz_id)) =>
            ret'.status # 400]_vars

\* C14 witness: with an attempt in the table, a payload whose only fault is an
\* answer id of another question has been answered 400 naming that id
C14_Witness ==
  /\ ret.op = "submit"
  /\ ret.status = 400
  /\ ret.body.code = "answer_not_in_question"
  /\ ret.body.answer_id \in ForeignAnswers(ret.data.answers[1])
  /\ ~SingleChoiceMany(ret.data.answers[1])
  /\ Len(attempts) = 1

\* ------------------------------------ properties of the service calls
\* C15 as stated: the attempt of a submit_quiz given started_at has that
\* started_at and, as time_taken_seconds, the floor of the seconds from
\* started_at to now, also when started_at is later than now; without
\* started_at, time_taken_seconds is null.
C15_FloorOfDifference ==
  (ret.op = "submit_quiz" /\ ret.raised = "none") =>
    LET a == attempts[Len(attempts)]
    IN IF ret.started_at = None
         THEN a.time_taken_seconds = None
         ELSE /\ a.started_at = ret.started_at[1]
              /\ a.time_taken_seconds =
                   Some((now - ret.started_at[1]) \div TicksPerSecond)

\* the ids of the attempts of user u, read off the table
AttemptsOf(u) == {i \in DOMAIN attempts : attempts[i].user = u}

RECURSIVE ScoreSumTo(_, _)
\* the sum of the scores of the attempts of user u with ids 1..n
ScoreSumTo(u, n) ==
  IF n = 0 THEN 0
  ELSE ScoreSumTo(u, n - 1)
         + (IF attempts[n].user = u THEN attempts[n].score ELSE 0)

\* C17: for a user without attempts get_statistics returns total_quizzes 0,
\* average_score 0, highest_score 0 and no recent attempts, whatever the
\* attempts of other users.
C17_NoAttemptsAllZero ==
  (ret.op = "get_statistics" /\ AttemptsOf(ret.user) = {}) =>
    ret.result = [total_quizzes |-> 0, average_score |-> 0,
                  highest_score |-> 0, recent_attempts |-> <<>>]

\* C17 witness: statistics of a user without attempts, taken while another
\* user has attempts with scores above 0
C17_Witness ==
  /\ ret.op = "get_statistics"
  /\ AttemptsOf(ret.user) = {}
  /\ Len(attempts) >= 2
  /\ \E i \in DOMAIN attempts : attempts[i].score > 0

\* C18: for a user with attempts, total_quizzes is the number of the user's
\* attempts, highest_score the greatest of their scores, and average_score a
\* hundredth nearest to the mean of their scores.
C18_StatisticsOfOwnAttempts ==
  (ret.op = "get_statistics" /\ AttemptsOf(ret.user) # {}) =>
    LET n == Cardinality(AttemptsOf(ret.user))
        sum == ScoreSumTo(ret.user, Len(attempts))
        diff == ret.result.average_score * n - sum
    IN /\ ret.result.total_quizzes = n
       /\ \E i \in AttemptsOf(ret.user) :
             attempts[i].score = ret.result.highest_score
       /\ \A i \in AttemptsOf(ret.user) :
             attempts[i].score <= ret.result.highest_score
       /\ 2 * diff <= n
       /\ 2 * diff >= 0 - n

\* C18 witness: statistics of a user with two attempts whose mean is no
\* whole hundredth, while another user holds the top score
C18_Witness ==
  /\ ret.op = "get_statistics"
  /\ Cardinality(AttemptsOf(ret.user)) = 2
  /\ Len(attempts) = 3
  /\ ScoreSumTo(ret.user, Len(attempts)) % 2 = 1
  /\ \E i \in DOMAIN attempts :
        /\ attempts[i].user # ret.user
        /\ attempts[i].score > ret.result.highest_score

RECURSIVE NewestFirst(_, _)
\* the attempts of user u with ids 1..n, from the last created to the first
NewestFirst(u, n) ==
  IF n = 0 THEN <<>>
  ELSE (IF attempts[n].user = u THEN <<n>> ELSE <<>>) \o NewestFirst(u, n - 1)

\* C19 as stated: get_user_attempts lists the user's attempts from the last
\* created to the first, also those created in immediate succession;
\* get_recent_attempts is the first limit elements of that list, and the
\* recent_attempts of the statistics its first 5.
C19_NewestFirst ==
  LET all == NewestFirst(ret.user, Len(attempts))
  IN /\ ret.op = "get_user_attempts" => ret.result = all
     /\ ret.op = "get_recent_attempts" =>
          ret.result = SubSeq(all, 1, Min({ret.limit, Len(all)}))
     /\ ret.op = "get_statistics" =>
          ret.result.recent_attempts
            = SubSeq(all, 1, Min({RecentLimit, Len(all)}))

\* ------------------------------------------------------ non-disclosure
\* the Answer table with every is_correct flag and explanation blanked
Blanked ==
  [a \in DOMAIN answers |->
     [question |-> answers[a].question, is_correct |-> FALSE,
      explanation |-> ""]]

\* C16: the response of list and of retrieve is the response over the table
\* with the flags and explanations blanked, and no answer in a retrieve
\* response has an is_correct or an explanation entry; the response of
\* user_stats and the error responses of submit have none either; the
\* results of a scored submit carry each answer's flag and explanation.
C16_NonDisclosure ==
  /\ ret.op = "list" => ret.body = QuizViewSet_list(questions).body
  /\ ret.op = "retrieve" =>
       /\ ret.body = QuizViewSet_retrieve(questions, Blanked, ret.pk).body
       /\ ret.status = 200 =>
            \A i \in DOMAIN ret.body.questions :
               \A k \in DOMAIN ret.body.questions[i].answers :
                  DOMAIN ret.body.questions[i].answers[k] = {"id"}
  /\ ret.op = "user_stats" =>
       /\ DOMAIN ret.body = {"total_quizzes", "average_score",
                             "highest_score", "recent_attempts"}
       /\ \A k \in DOMAIN ret.body.recent_attempts :
             DOMAIN ret.body.recent_attempts[k]
               = {"id", "quiz_id", "score", "completed_at"}
  /\ (ret.op = "submit" /\ ret.status # 200) =>
       "results" \notin DOMAIN ret.body
  /\ (ret.op = "submit" /\ ret.status = 200) =>
       \A i \in DOMAIN ret.body.results :
          \A k \in DOMAIN ret.body.results[i].answers :
             LET shown == ret.body.results[i].answers[k]
             IN /\ shown.is_correct = answers[shown.id].is_correct
                /\ shown.explanation = answers[shown.id].explanation

\* C16 witness: a retrieve has returned a quiz that has an answer marked
\* correct with an explanation
C16_Witness ==
  /\ ret.op = "retrieve"
  /\ ret.status = 200
  /\ \E i \in DOMAIN ret.body.questions :
        \E k \in DOMAIN ret.body.questions[i].answers :
           LET a == ret.body.questions[i].answers[k].id
           IN answers[a].is_correct /\ answers[a].explanation # ""

\* ------------------------------------------------ requests in parallel
\* the requests that have been answered 200
Succeeded == {r \in DOMAIN reqs : reqs[r].pc = "done" /\ reqs[r].status = 200}

\* C20: in every interleaving the table holds one attempt for each request
\* answered 200 and no other; the attempt of a request has the request's
\* user, quiz, score and payload, no two requests share an attempt, and a
\* request with a valid body for a quiz that exists is never answered
\* otherwise than 200, whatever attempts the table holds.
C20_IndependentAttempts ==
  /\ Len(attempts) = Cardinality(Succeeded)
  /\ \A r \in Succeeded :
        /\ reqs[r].attempt \in DOMAIN attempts
        /\ LET a == attempts[reqs[r].attempt]
           IN /\ a.user = reqs[r].user
              /\ Str(a.quiz) = reqs[r].pk
              /\ a.score = reqs[r].body.percentage
              /\ a.answers_data.submitted_answers
                   = DictOf(reqs[r].data.answers)
  /\ \A r1, r2 \in Succeeded :
        r1 # r2 => reqs[r1].attempt # reqs[r2].attempt
  /\ \A r \in DOMAIN reqs :
        (/\ reqs[r].pc = "done"
         /\ is_valid(questions, answers, reqs[r].data).valid
         /\ \E q \in QuizIds : Str(q) = reqs[r].pk) =>
          reqs[r].status = 200

\* C20 witness: two submits of one user to one quiz with different payloads
\* have both been answered 200, the one that arrived first saved last
C20_Witness ==
  /\ Succeeded = {1, 2}
  /\ reqs[1].user = reqs[2].user
  /\ reqs[1].pk = reqs[2].pk
  /\ reqs[1].data.answers # reqs[2].data.answers
  /\ reqs[1].body.percentage # reqs[2].body.percentage
  /\ reqs[1].attempt = 2
  /\ reqs[2].attempt = 1

\* ------------------------------------------------ properties of the tables
\* C21 as stated: every attempt of the table has a score from 0.00 to 100.00,
\* whether submit_quiz or create_attempt saved it, and clean() raises the
\* validation error exactly for a score below 0 or above 100.
C21_ScoreInRange ==
  /\ \A i \in DOMAIN attempts :
        attempts[i].score >= 0 /\ attempts[i].score <= 10000
  /\ ret.op = "clean" =>
       (ret.raised = "ValidationError"
          <=> (ret.score < 0 \/ ret.score > 10000))

\* ---------------------------------------------- properties of the registry
\* C22 as stated: a register_strategy call that registers stores the class
\* under its tag and leaves every other tag as it was, so that the registry
\* holds for each tag the class registered last, or the built-in class;
\* get_strategy of a tag of the registry returns an evaluator of the class the
\* registry holds for it, and get_strategy of any other tag fails with an error
\* that names the tag and lists the tags of the registry.
C22_LastWriteWins ==
  [][/\ (ret'.op = "register_strategy" /\ ret'.raised = "none") =>
          /\ ret'.question_type \in DOMAIN strategies'
          /\ strategies'[ret'.question_type] = ret'.strategy_class
          /\ \A t \in (DOMAIN strategies \cup DOMAIN strategies')
                        \ {ret'.question_type} :
                /\ t \in DOMAIN strategies
                /\ t \in DOMAIN strategies'
                /\ strategies'[t] = strategies[t]
     /\ ~(ret'.op = "register_strategy" /\ ret'.raised = "none") =>
          strategies' = strategies
     /\ ret'.op = "get_strategy" =>
          IF ret'.question_type \in DOMAIN strategies
            THEN /\ ret'.result.raised = "none"
                 /\ ret'.result.cls = strategies[ret'.question_type]
            ELSE /\ ret'.result.raised = "ValueError"
                 /\ ret'.result.question_type = ret'.question_type
                 /\ ret'.result.supported = DOMAIN strategies]_vars

\* --------------------------------------- properties of the detail records
RECURSIVE AwardedTo(_)
\* the sum of points_awarded of the first n detail records
AwardedTo(n) ==
  IF n = 0 THEN 0 ELSE AwardedTo(n - 1) + Details[n].points_awarded

\* the ids of the answers of question q, read off the Answer table
OptionsOf(q) == {a \in DOMAIN answers : answers[a].question = q}

\* C23: with details, there is one record for each question of the quiz, in
\* ascending order and then id; points_awarded is points if is_correct and 0
\* otherwise, and the points_awarded sum to earned_points; user_answer_ids is
\* the submitted list of the question, empty if there is none; the options
\* listed are the question's answers, and one has was_selected exactly when
\* its id is in user_answer_ids.  Without details there are no records, and
\* score, total_points and earned_points are those of the call with details.
C23_DetailRecords ==
  ret.op = "calculate_score" =>
    IF ret.include_details
      THEN /\ ret.result.has_details
           /\ Len(Details) = Cardinality(QuizRows)
           /\ {Details[i].question_id : i \in 1..Len(Details)} = QuizRows
           /\ \A i, j \in 1..Len(Details) :
                 i < j =>
                   LET p == Details[i].question_id
                       q == Details[j].question_id
                   IN \/ questions[p].order < questions[q].order
                      \/ /\ questions[p].order = questions[q].order
                         /\ p < q
           /\ \A i \in 1..Len(Details) :
                 LET d == Details[i]
                 IN /\ d.points = questions[d.question_id].points
                    /\ d.points_awarded = IF d.is_correct THEN d.points ELSE 0
                    /\ d.user_answer_ids = SubmittedFor(d.question_id)
                    /\ {d.answers[k].id : k \in DOMAIN d.answers}
                         = OptionsOf(d.question_id)
                    /\ Len(d.answers) = Cardinality(OptionsOf(d.question_id))
                    /\ \A k \in DOMAIN d.answers :
                          d.answers[k].was_selected <=>
                            \E n \in DOMAIN d.user_answer_ids :
                               d.user_answer_ids[n] = d.answers[k].id
           /\ AwardedTo(Len(Details)) = ret.result.earned_points
      ELSE /\ ~ret.result.has_details
           /\ Details = <<>>
           /\ LET with == calculate_score(strategies, questions, answers,
                                          ret.quiz, ret.submitted_answers, TRUE)
              IN /\ ret.result.raised = with.raised
                 /\ ret.result.score = with.score
                 /\ ret.result.total_points = with.total_points
                 /\ ret.result.earned_points = with.earned_points

\* C23 witness: a call with details on a quiz of three questions whose third
\* question comes first by its order; it is judged correct, the first question
\* is answered with a list that repeats the wrong answer, and the second has
\* no entry
C23_Witness ==
  /\ ret.op = "calculate_score"
  /\ ret.include_details
  /\ Len(Details) = 3
  /\ Details[1].question_id = 3
  /\ Details[1].is_correct
  /\ Details[2].question_id = 1
  /\ Details[2].user_answer_ids = <<2, 2>>
  /\ Details[2].answers[2].was_selected
  /\ ~Details[2].answers[1].was_selected
  /\ Details[3].user_answer_ids = <<>>
  /\ ret.result.earned_points = Details[1].points

\* ------------------------------------------- properties of shared state
\* C24 as stated: the result of a scoring call is determined by the quiz
\* snapshot and the submission: it is the result the call has in a process in
\* which nothing else has run, whatever calls, register_strategy calls of
\* other requests among them, ran before it.
C24_NoSharedState ==
  ret.op = "calculate_score" =>
    ret.result = calculate_score(BuiltinStrategies, questions, answers,
                                 ret.quiz, ret.submitted_answers,
                                 ret.include_details)

\* ---------------------------------------- properties of the start time
\* C25 as stated: the attempt a submit creates for a body with started_at has
\* that started_at and a time_taken_seconds that is not null, and the response
\* carries the same time_taken_seconds.
C25_StartedAtReachesRecorder ==
  (ret.op = "submit" /\ ret.status = 200 /\ ret.data.started_at # None) =>
    LET a == attempts[Len(attempts)]
    IN /\ a.started_at = ret.data.started_at[1]
       /\ a.time_taken_seconds # None
       /\ ret.body.time_taken_seconds = a.time_taken_seconds

\* ------------------------------------- properties of statistics in parallel
\* C26 as stated: in the statistics a user_stats request answers with,
\* total_quizzes is the number of the attempts that average_score and
\* highest_score were computed over, and recent_attempts holds no attempt
\* outside that set, also when submissions of the user are saved meanwhile.
C26_OneSetOfAttempts ==
  \A r \in DOMAIN reqs :
     reqs[r].pc = "done" =>
       /\ StatsOf(reqs[r]).total_quizzes = Cardinality(reqs[r].rows)
       /\ \A k \in DOMAIN StatsOf(reqs[r]).recent_attempts :
             StatsOf(reqs[r]).recent_attempts[k] \in reqs[r].rows

\* --------------------------------- properties of scoring beside an editor
\* C27 as stated: in every detail record, is_correct of a multi or
\* select_words question is true exactly when the set of user_answer_ids is
\* the set of correct_answer_ids of the record, is_correct of a single
\* question exactly when both are the same set of one id, and
\* correct_answer_ids is the set of the ids of the options the record lists
\* with is_correct true, also when an answer's flag is edited during the call.
C27_RecordSelfConsistent ==
  \A r \in DOMAIN reqs :
     \A i \in DOMAIN reqs[r].detailed_results :
        LET d == reqs[r].detailed_results[i]
            user == ToSet(d.user_answer_ids)
            correct == ToSet(d.correct_answer_ids)
        IN /\ d.question_type \in {"multi", "select_words"} =>
                (d.is_correct <=> user = correct)
           /\ d.question_type = "single" =>
                (d.is_correct <=> (user = correct /\ Cardinality(user) = 1))
           /\ correct = {d.answers[k].id : k \in
                           {x \in DOMAIN d.answers : d.answers[x].is_correct}}

\* -------------------------------------------- properties of the authoring
\* C28 as stated: in every state reached by creating questions and answers
\* and editing answers, each single-choice question of the table has exactly
\* one answer marked correct; clean() of a row raises the validation error
\* exactly for a single-choice question whose number of answers marked correct
\* is not 1, and clean() of an instance not saved skips the check.
C28_SingleHasOneCorrect ==
  /\ \A q \in DOMAIN questions :
        questions[q].question_type = "single" => Cardinality(Marked(q)) = 1
  /\ ret.op = "question_clean" =>
       IF ret.pk = None
         THEN ret.raised = "none"
         ELSE ret.raised = "ValidationError" <=>
                /\ ret.question_type = "single"
                /\ Cardinality(Marked(ret.pk[1])) # 1

\* ------------------------------------------ properties of inactive quizzes
\* C29 as stated: the list response holds no quiz whose is_active is false,
\* retrieve does not return such a quiz, and the attempts a submit creates are
\* for a quiz that is active when the submit runs.
C29_InactiveNotAvailable ==
  [][/\ ret'.op = "list" =>
          \A k \in DOMAIN ret'.body : quizzes[ret'.body[k].id].is_active
     /\ (ret'.op = "retrieve" /\ ret'.status = 200) =>
          quizzes[ret'.body.id].is_active
     /\ ret'.op = "submit" =>
          \A i \in DOMAIN attempts' \ DOMAIN attempts :
             quizzes[attempts'[i].quiz].is_active]_vars

\* ----------------------------------------------- properties of the router
\* C30 as stated: a write is routed to 'default', migrations are allowed on
\* 'default' and on no other database, and a read is routed to 'replica' if
\* settings.DATABASES has a 'replica' and to 'default' if it has none, so
\* that no read is routed to a database that is not configured.
C30_ReadsFallBack ==
  /\ ret.op = "db_for_write" => ret.result = "default"
  /\ ret.op = "allow_migrate" => (ret.result <=> ret.db = "default")
  /\ ret.op = "db_for_read" =>
       /\ ret.result =
            IF "replica" \in databases THEN "replica" ELSE "default"
       /\ ret.result \in databases

====
